---- MODULE Spec2Model ----
(***************************************************************************)
(* Model of the Lianjia rental scraper: the command line of                *)
(* scripts/run_scraper.py, the crawl controller, page fetcher and field    *)
(* extractor of src/scraper/spider.py, and the CSV persistence of          *)
(* save_to_csv / load_data.                                                *)
(*                                                                         *)
(* Text is a sequence of one-character strings, so that substring tests,   *)
(* regular-expression searches, integer parsing and the CSV conversions    *)
(* are computed and not assumed.                                           *)
(***************************************************************************)
EXTENDS Integers, Sequences, FiniteSets, TLC

VARIABLES
    pc,                      \* position of the running program; "exited"
                             \* is main returning before any crawl, "done"
                             \* its end after the crawl
    argv,                    \* sys.argv[1:] of run_scraper.main
    printed,                 \* kind of the last message main printed
    spiderCreated,           \* LianjiaSpider() has been constructed
    start_page, end_page,    \* the range handed to scrape_page_range
    page_num,                \* loop variable of scrape_page_range
    all_listings,            \* scrape_page_range: aggregate list
    skipped_pages,           \* scrape_page_range: skipped page numbers
    consecutive_empty_pages, \* scrape_page_range: counter
    lastResp,                \* the response the last session.get met
    fetchLog,                \* history: <<page, what scrape_page returned>>
    events,                  \* history: fetches and sleeps in order
    ret,                     \* what scrape_page_range returned / raised
    skipLog,                 \* lines of <prefix>_skipped_pages.txt
    logBefore,               \* skipLog at the start of the current crawl
    csvFile,                 \* state of data/<prefix>.csv
    saveRet,                 \* what the last save_to_csv returned
    ops,                     \* history of save_to_csv calls
    loaded,                  \* what load_data returned
    node,                    \* parse_listing: the listing node under test
    parsed,                  \* parse_listing: its result
    lastDelay,               \* what the last get_random_delay() returned
    crawlLog,                \* history: the skipped-pages log when the
                             \* program started, and the skipped list of
                             \* every finished scrape_page_range call
    layoutResult,            \* what analyze_layout_statistics returned
    report,                  \* how generate_layout_report ended
    max_retries,             \* SCRAPER_CONFIG['max_retries']
    min_records,             \* CITIES[city_code]['min_records']
    max_pages,               \* scrape_city: the argument (None when omitted)
    estimated_pages,         \* scrape_city: local (None while unassigned)
    page_listings,           \* scrape_city: listings, what scrape_city_page
                             \* returned
    attempt,                 \* scrape_city_page: loop variable
    tries                    \* history: the attempts of the current
                             \* scrape_city_page call, with their waits

vars == <<pc, argv, printed, spiderCreated, start_page, end_page, page_num,
          all_listings, skipped_pages, consecutive_empty_pages, lastResp,
          fetchLog, events, ret, skipLog, logBefore, csvFile, saveRet, ops,
          loaded, node, parsed, lastDelay, crawlLog, layoutResult, report,
          max_retries, min_records, max_pages, estimated_pages,
          page_listings, attempt, tries>>

\* The state of the multi-city scraper (scripts/scraping/lianjia_scraper.py).
cityVars == <<max_retries, min_records, max_pages, estimated_pages,
              page_listings, attempt, tries>>

\* ------------------------------------------------------------------ bounds

\* Largest page number a command line or prompt can name in the model.
MaxPage == 10

\* Most listing nodes in one modelled document.
MaxItems == 2

\* Most records in one dataset handed to save_to_csv.
MaxRows == 2

\* Most scrape_page_range calls made on one spider one after the other.
MaxCalls == 2

\* Most rows of a dataset handed to the layout analysis.
MaxLayoutRows == 3

\* ------------------------------------------------------------------- text

Digits == {"0", "1", "2", "3", "4", "5", "6", "7", "8", "9"}

DigitVal(c) ==
    CASE c = "0" -> 0 [] c = "1" -> 1 [] c = "2" -> 2 [] c = "3" -> 3
      [] c = "4" -> 4 [] c = "5" -> 5 [] c = "6" -> 6 [] c = "7" -> 7
      [] c = "8" -> 8 [] c = "9" -> 9

DigitChar(n) ==
    CASE n = 0 -> "0" [] n = 1 -> "1" [] n = 2 -> "2" [] n = 3 -> "3"
      [] n = 4 -> "4" [] n = 5 -> "5" [] n = 6 -> "6" [] n = 7 -> "7"
      [] n = 8 -> "8" [] n = 9 -> "9"

\* Characters that are not \w for Python's re (everything else of the
\* model's alphabet is a letter, a digit or a CJK character).
NonWord == {"/", "-", "(", ")", ".", " ", "|", "m2", "+"}

IsWordChar(c) == c \notin NonWord

AllDigits(t) == \A i \in 1..Len(t) : t[i] \in Digits

\* The value of a digit string, most significant digit first.
RECURSIVE DigitsVal(_)
DigitsVal(t) ==
    IF t = <<>> THEN 0
    ELSE 10 * DigitsVal(SubSeq(t, 1, Len(t) - 1)) + DigitVal(t[Len(t)])

\* The decimal digits of a natural number.
RECURSIVE NatText(_)
NatText(n) ==
    IF n < 10 THEN <<DigitChar(n)>>
    ELSE NatText(n \div 10) \o <<DigitChar(n % 10)>>

\* str.strip(): leading and trailing blanks removed.
RECURSIVE Strip(_)
Strip(t) ==
    IF t = <<>> THEN t
    ELSE IF t[1] = " " THEN Strip(Tail(t))
    ELSE IF t[Len(t)] = " " THEN Strip(SubSeq(t, 1, Len(t) - 1))
    ELSE t

\* `sub in t` of Python: sub occurs in t as a contiguous run.
Contains(t, sub) ==
    \E i \in 1..(Len(t) - Len(sub) + 1) : SubSeq(t, i, i + Len(sub) - 1) = sub

\* Concatenation of a sequence of sequences.
RECURSIVE Flatten(_)
Flatten(ss) ==
    IF ss = <<>> THEN <<>> ELSE Head(ss) \o Flatten(Tail(ss))

\* sep.join(parts)
RECURSIVE Join(_, _)
Join(parts, sep) ==
    IF parts = <<>> THEN <<>>
    ELSE IF Len(parts) = 1 THEN parts[1]
    ELSE parts[1] \o sep \o Join(Tail(parts), sep)

\* The image of a sequence under an operator.
MapSeq(Op(_), s) == [i \in 1..Len(s) |-> Op(s[i])]

Min(S) == CHOOSE x \in S : \A y \in S : x <= y

Max(S) == CHOOSE x \in S : \A y \in S : x >= y

\* --------------------------------------------------------- Python values

\* A Python value of a listing dict or a DataFrame cell, tagged by its type:
\* str (s), int (v), float (v in tenths) and NaN.
StrV(t) == [t |-> "str", v |-> 0, s |-> t]

IntV(n) == [t |-> "int", v |-> n, s |-> <<>>]

FloatV(tenths) == [t |-> "float", v |-> tenths, s |-> <<>>]

NaN == [t |-> "nan", v |-> 0, s |-> <<>>]

\* Python's None and an exception that left a function.
None == [none |-> TRUE]

Raised == [raised |-> TRUE]

\* The empty dict / the dict d after d[k] = v.
EmptyDict == <<>>

Put(d, k, v) == (k :> v) @@ d

\* Truth value of what parse_listing returns: None and {} are false.
Truthy(x) == x # None /\ DOMAIN x # {}

\* ------------------------------------------------- listing nodes (markup)

\* One listing node (div.content__list--item) as BeautifulSoup sees it:
\*   title  - p.content__list--item--title and its text
\*   des    - p.content__list--item--des; parts are its strings in document
\*            order, each inside an <a> ("a"), inside span.hide ("hide") or
\*            directly in the paragraph ("text")
\*   bottom - p.content__list--item--bottom and the texts of its <i> tags
\*   brand  - p.content__list--item--brand, its span.brand and its whole text
\*   price  - span.content__list--item-price and its <em>
\*   fault  - the node makes an extraction step raise (any exception other
\*            than the ValueError of int(price_text))
\* Characters stand for themselves; the CJK ones are spelled: "zheng","zu"
\* (whole rent), "he","zu" (shared rent), "m2" (square metre sign), "shi",
\* "ting", "wei" (room, hall, bath), "lou","ceng" (floor).
Absent == [present |-> FALSE, text |-> <<>>]

Elem(t) == [present |-> TRUE, text |-> t]

NoDes == [present |-> FALSE, parts |-> <<>>]

NoBottom == [present |-> FALSE, tags |-> <<>>]

NoBrand == [present |-> FALSE, span |-> Absent, text |-> <<>>]

NoPrice == [present |-> FALSE, em |-> Absent]

\* Tag.get_text(strip=True) of an element holding the strings `texts`:
\* every string stripped, empty ones dropped, the rest concatenated.
get_text(texts) == Flatten(MapSeq(Strip, texts))

\* ----------------------------------------------- regular-expression search

\* The indices at which character c stands in t.
Positions(t, c) == {i \in 1..Len(t) : t[i] = c}

\* s matches \d+\.?\d* as a whole.
IsAreaNumber(s) ==
    \E d \in 1..Len(s) :
        /\ AllDigits(SubSeq(s, 1, d))
        /\ \/ d = Len(s)
           \/ s[d + 1] = "." /\ AllDigits(SubSeq(s, d + 2, Len(s)))

\* re.search(r'(\d+\.?\d*)m2', t): the <<start, index of the sign>> pairs at
\* which the pattern matches; the search returns the leftmost start.
AreaMatches(t) ==
    {m \in (1..Len(t)) \X Positions(t, "m2") :
        m[1] < m[2] /\ IsAreaNumber(SubSeq(t, m[1], m[2] - 1))}

AreaGroup(t) ==
    LET i == Min({m[1] : m \in AreaMatches(t)})
        k == Max({m[2] : m \in {x \in AreaMatches(t) : x[1] = i}})
    IN  SubSeq(t, i, k - 1)

\* float(group) in tenths; the modelled area texts carry at most one
\* significant decimal.
PyFloatTenths(s) ==
    LET d == Max({n \in 1..Len(s) : AllDigits(SubSeq(s, 1, n))})
        frac == SubSeq(s, d + 2, Len(s))
    IN  10 * DigitsVal(SubSeq(s, 1, d))
          + (IF frac = <<>> THEN 0 ELSE DigitVal(frac[1]))

\* re.search(r'/([^/]*?)/', t): the first two slashes.
Slashes(t) == Positions(t, "/")

OrientationMatch(t) == Cardinality(Slashes(t)) >= 2

OrientationGroup(t) ==
    LET i == Min(Slashes(t))
        j == Min(Slashes(t) \ {i})
    IN  SubSeq(t, i + 1, j - 1)

\* re.search(r'(\d+)shi(\d+)ting(\d+)wei', t): <<start, shi, ting, wei>>.
LayoutMatches(t) ==
    {m \in (1..Len(t)) \X Positions(t, "shi") \X Positions(t, "ting")
                       \X Positions(t, "wei") :
        /\ m[1] < m[2] /\ m[2] + 1 < m[3] /\ m[3] + 1 < m[4]
        /\ AllDigits(SubSeq(t, m[1], m[2] - 1))
        /\ AllDigits(SubSeq(t, m[2] + 1, m[3] - 1))
        /\ AllDigits(SubSeq(t, m[3] + 1, m[4] - 1))}

LayoutMatch(t) ==
    LET i == Min({m[1] : m \in LayoutMatches(t)})
    IN  CHOOSE m \in LayoutMatches(t) : m[1] = i

\* re.search(r'(\w+)louceng.*?\((\d+)ceng\)', t):
\* <<start, end of group 1, "(", ")">>; leftmost start, longest group 1
\* (greedy), nearest parenthesis (lazy).
FloorMatches(t) ==
    {m \in (1..Len(t)) \X {p - 1 : p \in Positions(t, "lou")}
                       \X Positions(t, "(") \X Positions(t, ")") :
        /\ m[1] <= m[2] /\ m[2] + 2 < m[3] /\ m[3] + 2 < m[4]
        /\ \A i \in m[1]..m[2] : IsWordChar(t[i])
        /\ t[m[2] + 2] = "ceng"
        /\ t[m[4] - 1] = "ceng"
        /\ AllDigits(SubSeq(t, m[3] + 1, m[4] - 2))}

FloorMatch(t) ==
    LET i == Min({m[1] : m \in FloorMatches(t)})
        g == Max({m[2] : m \in {x \in FloorMatches(t) : x[1] = i}})
        p == Min({m[3] : m \in {x \in FloorMatches(t) : x[1] = i /\ x[2] = g}})
    IN  CHOOSE m \in FloorMatches(t) : m[1] = i /\ m[2] = g /\ m[3] = p

\* int(price_text): an optional sign and decimal digits, else ValueError.
PyIntOk(t) ==
    \/ t # <<>> /\ AllDigits(t)
    \/ Len(t) >= 2 /\ t[1] \in {"-", "+"} /\ AllDigits(Tail(t))

PyInt(t) ==
    IF t[1] = "-" THEN 0 - DigitsVal(Tail(t))
    ELSE IF t[1] = "+" THEN DigitsVal(Tail(t))
    ELSE DigitsVal(t)

\* ------------------------------------------------------- parse_listing

\* ParseTitle without the rent type.
ParseTitle_NoRentType(item_div, listing) ==
    IF ~item_div.title.present THEN listing
    ELSE Put(listing, "title", StrV(get_text(<<item_div.title.text>>)))

\* ParseTitle that tests the shared-rent marker first.
ParseTitle_SharedFirst(item_div, listing) ==
    IF ~item_div.title.present THEN listing
    ELSE LET title_text == get_text(<<item_div.title.text>>)
             rent_type == IF Contains(title_text, <<"he", "zu">>)
                            THEN <<"he", "zu">>
                          ELSE IF Contains(title_text, <<"zheng", "zu">>)
                            THEN <<"zheng", "zu">>
                          ELSE <<"qi", "ta">>
         IN  Put(Put(listing, "title", StrV(title_text)),
                 "rent_type", StrV(rent_type))

\* Step 1: title and rent type.
ParseTitle(item_div, listing) ==
    IF ~item_div.title.present THEN listing
    ELSE LET title_text == get_text(<<item_div.title.text>>)
             rent_type == IF Contains(title_text, <<"zheng", "zu">>)
                            THEN <<"zheng", "zu">>
                          ELSE IF Contains(title_text, <<"he", "zu">>)
                            THEN <<"he", "zu">>
                          ELSE <<"qi", "ta">>
         IN  Put(Put(listing, "title", StrV(title_text)),
                 "rent_type", StrV(rent_type))

\* des_elem.find_all('a'): the texts of the links, in document order.
AreaLinks(des) ==
    LET idx == {i \in 1..Len(des.parts) : des.parts[i].kind = "a"}
        Nth[n \in 1..Cardinality(idx)] ==
            CHOOSE i \in idx : Cardinality({j \in idx : j < i}) = n - 1
    IN  [n \in 1..Cardinality(idx) |-> get_text(<<des.parts[Nth[n]].text>>)]

\* des_elem.find('span', class_='hide'): the first hidden span, if any.
HideParts(des) == {i \in 1..Len(des.parts) : des.parts[i].kind = "hide"}

\* ParseLinks with the first two links exchanged.
ParseLinks_Swapped(des, listing) ==
    LET area_links == AreaLinks(des)
    IN  IF Len(area_links) >= 3
        THEN Put(Put(Put(listing, "district", StrV(area_links[2])),
                     "sub_district", StrV(area_links[1])),
                 "community", StrV(area_links[3]))
        ELSE listing

\* Step 3a: the three district fields from the links.
ParseLinks(des, listing) ==
    LET area_links == AreaLinks(des)
    IN  IF Len(area_links) >= 3
        THEN Put(Put(Put(listing, "district", StrV(area_links[1])),
                     "sub_district", StrV(area_links[2])),
                 "community", StrV(area_links[3]))
        ELSE listing

\* Step 3b: area.
ParseArea(des_text, listing) ==
    IF AreaMatches(des_text) # {}
    THEN Put(listing, "area", FloatV(PyFloatTenths(AreaGroup(des_text))))
    ELSE listing

\* Step 3c: orientation.
ParseOrientation(des_text, listing) ==
    IF OrientationMatch(des_text)
    THEN Put(listing, "orientation", StrV(Strip(OrientationGroup(des_text))))
    ELSE listing

\* Step 3d: layout.
ParseLayout(des_text, listing) ==
    IF LayoutMatches(des_text) # {}
    THEN LET m == LayoutMatch(des_text)
         IN  Put(Put(Put(listing,
                 "bedrooms", IntV(DigitsVal(SubSeq(des_text, m[1], m[2] - 1)))),
                 "living_rooms", IntV(DigitsVal(SubSeq(des_text, m[2] + 1, m[3] - 1)))),
                 "bathrooms", IntV(DigitsVal(SubSeq(des_text, m[3] + 1, m[4] - 1))))
    ELSE listing

\* Step 3e: floor, from the hidden span.
ParseFloor(des, listing) ==
    IF HideParts(des) = {} THEN listing
    ELSE LET hide_text == get_text(<<des.parts[Min(HideParts(des))].text>>)
         IN  IF FloorMatches(hide_text) = {} THEN listing
             ELSE LET m == FloorMatch(hide_text)
                  IN  Put(Put(listing,
                          "floor_level", StrV(SubSeq(hide_text, m[1], m[2]))),
                          "total_floors",
                          IntV(DigitsVal(SubSeq(hide_text, m[3] + 1, m[4] - 2))))

\* Step 3: the description paragraph.
ParseDes(item_div, listing) ==
    IF ~item_div.des.present THEN listing
    ELSE LET des == item_div.des
             des_text == get_text([i \in 1..Len(des.parts) |-> des.parts[i].text])
         IN  ParseFloor(des,
               ParseLayout(des_text,
                 ParseOrientation(des_text,
                   ParseArea(des_text,
                     ParseLinks(des, listing)))))

\* Step 4: tags, the non-empty texts of the <i> elements joined by "|".
ParseTags(item_div, listing) ==
    IF ~item_div.bottom.present THEN listing
    ELSE LET texts == MapSeq(Strip, item_div.bottom.tags)
             tags == SelectSeq(texts, LAMBDA t : t # <<>>)
         IN  Put(listing, "tags", StrV(Join(tags, <<"|">>)))

\* Step 5: platform.
ParseBrand(item_div, listing) ==
    IF ~item_div.brand.present THEN listing
    ELSE IF item_div.brand.span.present
      THEN Put(listing, "platform", StrV(get_text(<<item_div.brand.span.text>>)))
    ELSE Put(listing, "platform", StrV(get_text(<<item_div.brand.text>>)))

\* ParsePrice that leaves the price out when int() rejects the text.
ParsePrice_NoCoerce(item_div, listing) ==
    IF ~item_div.price.present \/ ~item_div.price.em.present THEN listing
    ELSE LET price_text == get_text(<<item_div.price.em.text>>)
         IN  IF PyIntOk(price_text)
             THEN Put(listing, "price", IntV(PyInt(price_text)))
             ELSE listing

\* Step 6: price; a text int() rejects gives 0.
ParsePrice(item_div, listing) ==
    IF ~item_div.price.present \/ ~item_div.price.em.present THEN listing
    ELSE LET price_text == get_text(<<item_div.price.em.text>>)
         IN  IF PyIntOk(price_text)
             THEN Put(listing, "price", IntV(PyInt(price_text)))
             ELSE Put(listing, "price", IntV(0))

\* parse_listing without its try/except: the exception leaves it.
parse_listing_NoCatch(item_div) ==
    IF item_div.fault THEN Raised
    ELSE ParsePrice(item_div,
           ParseBrand(item_div,
             ParseTags(item_div,
               ParseDes(item_div,
                 ParseTitle(item_div, EmptyDict)))))

\* parse_listing(item_div): the dict of the extracted fields, or None when
\* an extraction step raised.
parse_listing(item_div) ==
    IF item_div.fault THEN None
    ELSE ParsePrice(item_div,
           ParseBrand(item_div,
             ParseTags(item_div,
               ParseDes(item_div,
                 ParseTitle(item_div, EmptyDict)))))

\* --------------------------------------------------------- scrape_page

\* What one session.get(url) can meet:
\*   "RequestException" - the request raises (timeout, connection error)
\*   "HTTPError"        - raise_for_status() raises on an error status
\*   "Exception"        - any other exception while the page is processed
\*   "ok"               - a page; container tells whether div.content__list
\*                        exists, items are its div.content__list--item nodes
Failure(kind) == [kind |-> kind, container |-> FALSE, items |-> <<>>]

Page(container, items) ==
    [kind |-> "ok", container |-> container, items |-> items]

\* Outcome of a block of code: a value, or the exception that left it.
Return(x) == [exc |-> "none", value |-> x]

Raise(e) == [exc |-> e, value |-> <<>>]

\* The loop over the listing nodes: a parsed listing is kept when it is
\* true (neither None nor {}); an exception leaving parse_listing leaves
\* the loop.
\* ParseItems without the `if parsed:` test.
ParseItems_KeepFalsy(items) ==
    LET results == MapSeq(parse_listing, items)
    IN  IF \E i \in 1..Len(results) : results[i] = Raised
        THEN Raise("Exception")
        ELSE Return(results)

ParseItems(items) ==
    LET results == MapSeq(parse_listing, items)
    IN  IF \E i \in 1..Len(results) : results[i] = Raised
        THEN Raise("Exception")
        ELSE Return(SelectSeq(results, Truthy))

\* The try block of scrape_page.
ScrapeTry(resp) ==
    IF resp.kind = "RequestException" THEN Raise("RequestException")
    ELSE IF resp.kind = "HTTPError" THEN Raise("RequestException")
    ELSE IF resp.kind = "Exception" THEN Raise("Exception")
    ELSE IF ~resp.container THEN Return(<<>>)
    ELSE IF resp.items = <<>> THEN Return(<<>>)
    ELSE ParseItems(resp.items)

\* scrape_page without its `except Exception` clause.
scrape_page_NoCatchAll(resp) ==
    LET r == ScrapeTry(resp)
    IN  IF r.exc = "RequestException" THEN Return(<<>>) ELSE r

\* scrape_page: both except clauses return the empty list.
scrape_page(resp) ==
    LET r == ScrapeTry(resp)
    IN  IF r.exc = "RequestException" THEN Return(<<>>)
        ELSE IF r.exc = "Exception" THEN Return(<<>>)
        ELSE r

\* ------------------------------------------------------------ documents

\* A listing as the site serves it on page p: title, price and tags.
GoodNode(p) ==
    [fault |-> FALSE,
     title |-> Elem(<<"zheng", "zu">> \o NatText(p)),
     des |-> NoDes,
     bottom |-> [present |-> TRUE, tags |-> <<<<"x">>>>],
     brand |-> NoBrand,
     price |-> [present |-> TRUE, em |-> Elem(NatText(p))]]

\* A second listing of page p, with a shared-rent title and no price text.
OtherNode(p) ==
    [fault |-> FALSE,
     title |-> Elem(<<"he", "zu">> \o NatText(p)),
     des |-> NoDes,
     bottom |-> NoBottom,
     brand |-> [present |-> TRUE, span |-> Absent, text |-> <<"L", "J">>],
     price |-> [present |-> TRUE, em |-> Elem(<<"a">>)]]

\* A node whose extraction raises, and a node without any sub-element.
FaultNode ==
    [fault |-> TRUE, title |-> Elem(<<"A">>), des |-> NoDes,
     bottom |-> NoBottom, brand |-> NoBrand, price |-> NoPrice]

BlankNode ==
    [fault |-> FALSE, title |-> Absent, des |-> NoDes,
     bottom |-> NoBottom, brand |-> NoBrand, price |-> NoPrice]

FailureKinds == {"RequestException", "HTTPError", "Exception"}

\* Every sequence over S of length 0..n.
SeqsUpTo(S, n) == UNION {[1..k -> S] : k \in 0..n}

\* The responses of the long crawls: a failed request, a page without
\* listings and a page with one listing.
CrawlResponses(p) ==
    {Failure("RequestException"), Page(TRUE, <<>>),
     Page(TRUE, <<GoodNode(p)>>)}

\* The responses of the short crawls: every failure, a page without
\* container, every page of up to MaxItems nodes that parse or raise, and
\* pages with a node that holds nothing.
PageNodes(p) == {GoodNode(p), OtherNode(p), FaultNode}

FullResponses(p) ==
    {Failure(k) : k \in FailureKinds}
      \cup {Page(FALSE, <<>>), Page(TRUE, <<BlankNode>>),
            Page(TRUE, <<BlankNode, GoodNode(p)>>)}
      \cup {Page(TRUE, items) : items \in SeqsUpTo(PageNodes(p), MaxItems)}

\* ------------------------------------------------- DataFrame and CSV file

\* The order in which parse_listing inserts its keys: the key order of
\* every listing dict.
KeyOrder ==
    <<"title", "rent_type", "district", "sub_district", "community", "area",
      "orientation", "bedrooms", "living_rooms", "bathrooms", "floor_level",
      "total_floors", "tags", "platform", "price">>

Range(f) == {f[x] : x \in DOMAIN f}

\* Columns of pd.DataFrame(listings): the keys in order of first appearance.
RECURSIVE Columns(_, _)
Columns(listings, acc) ==
    IF listings = <<>> THEN acc
    ELSE Columns(Tail(listings),
                 acc \o SelectSeq(KeyOrder,
                          LAMBDA k : k \in DOMAIN Head(listings)
                                       /\ k \notin Range(acc)))

\* dtype pandas gives a column holding these values.
ColumnDtype(values) ==
    IF \E v \in values : v.t = "str" THEN "object"
    ELSE IF \A v \in values : v.t = "int" THEN "int64"
    ELSE "float64"

\* A value stored in a column of that dtype: a float64 column widens ints.
Cast(v, dtype) ==
    IF dtype = "float64" /\ v.t = "int" THEN FloatV(10 * v.v) ELSE v

\* The frame with columns cols whose i-th row holds raw[i][c] in column c.
Frame(cols, raw) ==
    LET dtype == [c \in Range(cols) |->
                     ColumnDtype({raw[i][c] : i \in 1..Len(raw)})]
    IN  [cols |-> cols,
         rows |-> [i \in 1..Len(raw) |->
                      [c \in Range(cols) |-> Cast(raw[i][c], dtype[c])]]]

\* pd.DataFrame(listings): one row per dict, NaN where a dict lacks a key.
DataFrame(listings) ==
    LET cols == Columns(listings, <<>>)
    IN  Frame(cols,
              [i \in 1..Len(listings) |->
                  [c \in Range(cols) |->
                      IF c \in DOMAIN listings[i] THEN listings[i][c] ELSE NaN]])

\* pd.concat([a, b], ignore_index=True): a's rows, then b's; a's columns,
\* then b's new ones; NaN where a frame lacks a column; dtypes unified
\* (int64 with float64 or NaN gives float64, anything with object gives
\* object), which is the dtype of the values taken together.
concat(a, b) ==
    LET cols == a.cols \o SelectSeq(b.cols, LAMBDA c : c \notin Range(a.cols))
        Fill(f) == [i \in 1..Len(f.rows) |->
                       [c \in Range(cols) |->
                           IF c \in Range(f.cols) THEN f.rows[i][c] ELSE NaN]]
    IN  Frame(cols, Fill(a) \o Fill(b))

\* Text of an int and of a float (in tenths) as to_csv writes them.
IntText(n) == IF n < 0 THEN <<"-">> \o NatText(0 - n) ELSE NatText(n)

FloatText(tenths) ==
    LET a == IF tenths < 0 THEN 0 - tenths ELSE tenths
    IN  (IF tenths < 0 THEN <<"-">> ELSE <<>>)
          \o NatText(a \div 10) \o <<".">> \o <<DigitChar(a % 10)>>

\* One cell as df.to_csv writes it (quoting aside): NaN is the empty field.
CellText(v) ==
    IF v.t = "str" THEN v.s
    ELSE IF v.t = "int" THEN IntText(v.v)
    ELSE IF v.t = "float" THEN FloatText(v.v)
    ELSE <<>>

\* df.to_csv(filepath, index=False): the header and one text per cell.
to_csv(df) ==
    [cols |-> df.cols,
     rows |-> [i \in 1..Len(df.rows) |->
                  [c \in Range(df.cols) |-> CellText(df.rows[i][c])]]]

\* Field texts pd.read_csv takes for a missing value by default (those the
\* model's alphabet can spell).
NaSentinels ==
    {<<>>, <<"N", "A">>, <<"n", "a", "n">>, <<"n", "u", "l", "l">>,
     <<"N", "a", "N">>, <<"N", "U", "L", "L">>, <<"N", "o", "n", "e">>}

\* Texts read_csv parses as an integer / as a floating point number.
ParsesInt(t) == PyIntOk(t)

Unsigned(t) == IF t # <<>> /\ t[1] \in {"-", "+"} THEN Tail(t) ELSE t

ParsesFloat(t) == Unsigned(t) # <<>> /\ IsAreaNumber(Unsigned(t))

ParseFloatTenths(t) ==
    IF t[1] = "-" THEN 0 - PyFloatTenths(Unsigned(t))
    ELSE PyFloatTenths(Unsigned(t))

\* The values read_csv gives a column whose fields are texts[i].
ReadColumn(texts) ==
    LET present == {i \in 1..Len(texts) : texts[i] \notin NaSentinels}
    IN  IF present = {} THEN [i \in 1..Len(texts) |-> NaN]
        ELSE IF \A i \in present : ParsesInt(texts[i])
          THEN IF present = 1..Len(texts)
               THEN [i \in 1..Len(texts) |-> IntV(PyInt(texts[i]))]
               ELSE [i \in 1..Len(texts) |->
                        IF i \in present THEN FloatV(10 * PyInt(texts[i]))
                        ELSE NaN]
        ELSE IF \A i \in present : ParsesFloat(texts[i])
          THEN [i \in 1..Len(texts) |->
                   IF i \in present THEN FloatV(ParseFloatTenths(texts[i]))
                   ELSE NaN]
        ELSE [i \in 1..Len(texts) |->
                 IF i \in present THEN StrV(texts[i]) ELSE NaN]

\* pd.read_csv(filepath, encoding='utf-8-sig') of a readable table.
read_csv(table) ==
    LET col == [c \in Range(table.cols) |->
                   ReadColumn([i \in 1..Len(table.rows) |-> table.rows[i][c]])]
    IN  [cols |-> table.cols,
         rows |-> [i \in 1..Len(table.rows) |->
                      [c \in Range(table.cols) |-> col[c][i]]]]

\* The destination file: missing, present but not loadable (empty, not
\* CSV, wrong encoding), or holding a table.
EmptyTable == [cols |-> <<>>, rows |-> <<>>]

NoFile == [exists |-> FALSE, readable |-> FALSE, table |-> EmptyTable]

BadFile == [exists |-> TRUE, readable |-> FALSE, table |-> EmptyTable]

TableFile(table) == [exists |-> TRUE, readable |-> TRUE, table |-> table]

\* os.path.join(OUTPUT_DIR, filename)
FilePath == "data/beijing_rental_data.csv"

\* The try block of the append branch: the existing rows with the new ones.
ReadExisting(file, df) ==
    IF file.readable THEN Return(concat(read_csv(file.table), df))
    ELSE Raise("Exception")

\* The append branch without its try/except.
AppendExisting_NoCatch(file, df) == ReadExisting(file, df)

\* The append branch of save_to_csv: on any exception df stays as it was.
AppendExisting(file, df) ==
    LET r == ReadExisting(file, df)
    IN  IF r.exc = "none" THEN r ELSE Return(df)

\* save_to_csv without its `if not listings: return`.
save_to_csv_NoGuard(listings, append, file) ==
    LET df == DataFrame(listings)
        r == IF append /\ file.exists THEN AppendExisting(file, df)
             ELSE Return(df)
    IN  IF r.exc # "none"
        THEN [file |-> file, exc |-> r.exc, value |-> "None",
              makedirs |-> TRUE]
        ELSE [file |-> TableFile(to_csv(r.value)), exc |-> "none",
              value |-> FilePath, makedirs |-> TRUE]

\* save_to_csv(listings, append=append) with the destination in state file:
\* the file afterwards and what the call returns or raises.
save_to_csv(listings, append, file) ==
    IF listings = <<>>
    THEN [file |-> file, exc |-> "none", value |-> "None", makedirs |-> FALSE]
    ELSE LET df == DataFrame(listings)
             r == IF append /\ file.exists THEN AppendExisting(file, df)
                  ELSE Return(df)
         IN  IF r.exc # "none"
             THEN [file |-> file, exc |-> r.exc, value |-> "None",
                   makedirs |-> TRUE]
             ELSE [file |-> TableFile(to_csv(r.value)), exc |-> "none",
                   value |-> FilePath, makedirs |-> TRUE]

\* load_data: read the CSV file of the data directory, None when there is
\* none or it cannot be read.
load_data(file) ==
    IF file.exists /\ file.readable THEN read_csv(file.table) ELSE None

\* ------------------------------------------------------ program constants

\* max_consecutive_empty of scrape_page_range.
max_consecutive_empty == 3

\* end_page of run_scraper.main when the command line gives more than two
\* arguments.
DefaultEndPage == 10

\* DELAY_MIN and DELAY_MAX of config/settings.py, in seconds.
DELAY_MIN == 1

DELAY_MAX == 3

\* get_random_delay drawing from an interval one second too long.
get_random_delay_Long == DELAY_MIN..(DELAY_MAX + 1)

\* get_random_delay(): random.uniform(DELAY_MIN, DELAY_MAX) can return any
\* value of the interval; the model takes its whole seconds.
get_random_delay == DELAY_MIN..DELAY_MAX

\* ------------------------------------------------------------- inputs

\* The texts a command-line argument or a prompt answer can be: not a
\* number, and the page numbers 0, 1, 2 and MaxPage.
ArgTexts == {<<"a">>, <<"0">>, <<"1">>, <<"2">>, NatText(MaxPage)}

\* sys.argv[1:]: no argument, one, two, or three (all integers, or the
\* first one not a number).
ArgvSet ==
    {<<>>} \cup {<<a>> : a \in ArgTexts}
           \cup {<<a, b>> : a \in ArgTexts, b \in ArgTexts}
           \cup {<<<<"1">>, <<"2">>, <<"3">>>>, <<<<"a">>, <<"1">>, <<"2">>>>}

\* What the user types at a prompt: a text of ArgTexts or nothing.
PromptInputs == ArgTexts \cup {<<>>}

NoResponse == Failure("none")

NoReturn == [exc |-> "none", value |-> [listings |-> <<>>]]

NoSave ==
    [file |-> NoFile, exc |-> "none", value |-> "None", makedirs |-> FALSE]

\* generate_layout_report has not been called.
NoReport == [called |-> FALSE, exc |-> "none", written |-> FALSE]

\* A table an earlier run of the scraper left behind.
EarlierTable == to_csv(DataFrame(<<parse_listing(OtherNode(1))>>))

\* ---------------------------------------------------------------- Init

\* The data directory when a run starts: empty, or holding the table and
\* the skipped-pages log of an earlier run.
FreshDisk == [skipLog |-> <<>>, csvFile |-> NoFile]

UsedDisk == [skipLog |-> <<4>>, csvFile |-> TableFile(EarlierTable)]

\* run_scraper.py is started with some command line.
Init ==
    /\ pc = "main"
    /\ argv \in ArgvSet
    /\ printed = "none"
    /\ spiderCreated = FALSE
    /\ start_page = 0
    /\ end_page = 0
    /\ page_num = 0
    /\ all_listings = <<>>
    /\ skipped_pages = <<>>
    /\ consecutive_empty_pages = 0
    /\ lastResp = NoResponse
    /\ fetchLog = <<>>
    /\ events = <<>>
    /\ ret = NoReturn
    /\ \E disk \in {FreshDisk, UsedDisk} :
         skipLog = disk.skipLog /\ csvFile = disk.csvFile
    /\ logBefore = <<>>
    /\ saveRet = NoSave
    /\ ops = <<>>
    /\ loaded = None
    /\ node = BlankNode
    /\ parsed = None
    /\ lastDelay = 0
    /\ crawlLog = [initial |-> skipLog, skipped |-> <<>>]
    /\ layoutResult = None
    /\ report = NoReport
    /\ max_retries = 0
    /\ min_records = 0
    /\ max_pages = None
    /\ estimated_pages = None
    /\ page_listings = <<>>
    /\ attempt = 0
    /\ tries = <<>>

\* ------------------------------------------------------ run_scraper.main

\* main up to the creation of the spider, for a command line with
\* arguments; without arguments the prompt is entered.
MainArgs ==
    /\ pc = "main"
    /\ IF Len(argv) = 0
       THEN /\ pc' = "prompt"
            /\ UNCHANGED <<printed, start_page, end_page>>
       ELSE IF Len(argv) = 1
       THEN IF PyIntOk(Strip(argv[1]))
            THEN /\ start_page' = 1
                 /\ end_page' = PyInt(Strip(argv[1]))
                 /\ pc' = "spider"
                 /\ printed' = "start"
            ELSE /\ printed' = "error_not_integer"
                 /\ pc' = "exited"
                 /\ UNCHANGED <<start_page, end_page>>
       ELSE IF Len(argv) = 2
       THEN IF PyIntOk(Strip(argv[1])) /\ PyIntOk(Strip(argv[2]))
            THEN LET s == PyInt(Strip(argv[1]))
                     e == PyInt(Strip(argv[2]))
                 IN  /\ start_page' = s
                     /\ end_page' = e
                     /\ IF s > e \/ s < 1
                        THEN printed' = "error_range" /\ pc' = "exited"
                        ELSE printed' = "start" /\ pc' = "spider"
            ELSE /\ printed' = "error_not_integer"
                 /\ pc' = "exited"
                 /\ start_page' = IF PyIntOk(Strip(argv[1]))
                                  THEN PyInt(Strip(argv[1])) ELSE 1
                 /\ end_page' = DefaultEndPage
       ELSE /\ start_page' = 1
            /\ end_page' = DefaultEndPage
            /\ pc' = "spider"
            /\ printed' = "start"
    /\ UNCHANGED <<argv, spiderCreated, page_num, all_listings, skipped_pages,
                   consecutive_empty_pages, lastResp, fetchLog, events, ret,
                   skipLog, logBefore, csvFile, saveRet, ops, loaded, node,
                   parsed,
                   lastDelay, crawlLog,
                   layoutResult, report, cityVars>>

\* One round of get_page_range_interactive: both answers, or Ctrl-C.
Prompt ==
    /\ pc = "prompt"
    /\ \E interrupt \in BOOLEAN, start_input \in PromptInputs,
          end_input \in PromptInputs :
         IF interrupt
         THEN /\ printed' = "cancelled"
              /\ pc' = "exited"
              /\ UNCHANGED <<start_page, end_page>>
         ELSE IF start_input # <<>> /\ ~PyIntOk(start_input)
         THEN /\ printed' = "error_not_integer"
              /\ pc' = "prompt"
              /\ UNCHANGED <<start_page, end_page>>
         ELSE IF end_input = <<>>
         THEN /\ printed' = "error_end_empty"
              /\ pc' = "prompt"
              /\ UNCHANGED <<start_page, end_page>>
         ELSE IF ~PyIntOk(end_input)
         THEN /\ printed' = "error_not_integer"
              /\ pc' = "prompt"
              /\ UNCHANGED <<start_page, end_page>>
         ELSE LET s == IF start_input # <<>> THEN PyInt(start_input) ELSE 1
                  e == PyInt(end_input)
              IN  IF s < 1
                  THEN /\ printed' = "error_start"
                       /\ pc' = "prompt"
                       /\ UNCHANGED <<start_page, end_page>>
                  ELSE IF e < s
                  THEN /\ printed' = "error_range"
                       /\ pc' = "prompt"
                       /\ UNCHANGED <<start_page, end_page>>
                  ELSE /\ printed' = "start"
                       /\ pc' = "spider"
                       /\ start_page' = s
                       /\ end_page' = e
    /\ UNCHANGED <<argv, spiderCreated, page_num, all_listings, skipped_pages,
                   consecutive_empty_pages, lastResp, fetchLog, events, ret,
                   skipLog, logBefore, csvFile, saveRet, ops, loaded, node,
                   parsed,
                   lastDelay, crawlLog,
                   layoutResult, report, cityVars>>

\* ------------------------------------------------------ scrape_page_range

\* The head of scrape_page_range: its locals, and the loop variable at the
\* first page.
\* EnterRange with the aggregate, the skipped list and the counter kept
\* from the previous call, as attributes of the spider would be.
EnterRange_KeepState ==
    /\ UNCHANGED <<all_listings, skipped_pages, consecutive_empty_pages>>
    /\ page_num' = start_page
    /\ fetchLog' = <<>>
    /\ events' = <<>>
    /\ logBefore' = skipLog
    /\ lastResp' = NoResponse
    /\ ret' = NoReturn
    /\ lastDelay' = 0

EnterRange ==
    /\ all_listings' = <<>>
    /\ skipped_pages' = <<>>
    /\ consecutive_empty_pages' = 0
    /\ page_num' = start_page
    /\ fetchLog' = <<>>
    /\ events' = <<>>
    /\ logBefore' = skipLog
    /\ lastResp' = NoResponse
    /\ ret' = NoReturn
    /\ lastDelay' = 0

\* main creates the spider and calls scrape_page_range(start_page, end_page).
StartCrawl ==
    /\ pc = "spider"
    /\ spiderCreated' = TRUE
    /\ EnterRange
    /\ pc' = "crawl"
    /\ UNCHANGED <<argv, printed, start_page, end_page, skipLog, csvFile,
                   saveRet, ops, loaded, node, parsed,
                   crawlLog,
                   layoutResult, report, cityVars>>

\* LoopBody with the break one empty page late (> for >=).
LoopBody_LateBreak(p, listings, acc, skipped, count) ==
    IF listings = <<>>
    THEN [all_listings |-> acc,
          skipped_pages |-> Append(skipped, p),
          consecutive_empty_pages |-> count + 1,
          break |-> count + 1 > max_consecutive_empty,
          events |-> <<<<"skip", p>>>>]
    ELSE [all_listings |-> acc \o listings,
          skipped_pages |-> skipped,
          consecutive_empty_pages |-> 0,
          break |-> FALSE,
          events |-> <<<<"extend", p>>, <<"sleep", p>>>>]

\* LoopBody without the reset of the counter after a page with records.
LoopBody_NoReset(p, listings, acc, skipped, count) ==
    IF listings = <<>>
    THEN [all_listings |-> acc,
          skipped_pages |-> Append(skipped, p),
          consecutive_empty_pages |-> count + 1,
          break |-> count + 1 >= max_consecutive_empty,
          events |-> <<<<"skip", p>>>>]
    ELSE [all_listings |-> acc \o listings,
          skipped_pages |-> skipped,
          consecutive_empty_pages |-> count,
          break |-> FALSE,
          events |-> <<<<"extend", p>>, <<"sleep", p>>>>]

\* LoopBody leaving the loop at the first empty page.
LoopBody_BreakOnEmpty(p, listings, acc, skipped, count) ==
    IF listings = <<>>
    THEN [all_listings |-> acc,
          skipped_pages |-> Append(skipped, p),
          consecutive_empty_pages |-> count + 1,
          break |-> TRUE,
          events |-> <<<<"skip", p>>>>]
    ELSE [all_listings |-> acc \o listings,
          skipped_pages |-> skipped,
          consecutive_empty_pages |-> 0,
          break |-> FALSE,
          events |-> <<<<"extend", p>>, <<"sleep", p>>>>]

\* LoopBody sleeping after an empty page as well.
LoopBody_SleepAlways(p, listings, acc, skipped, count) ==
    IF listings = <<>>
    THEN [all_listings |-> acc,
          skipped_pages |-> Append(skipped, p),
          consecutive_empty_pages |-> count + 1,
          break |-> count + 1 >= max_consecutive_empty,
          events |-> <<<<"skip", p>>, <<"sleep", p>>>>]
    ELSE [all_listings |-> acc \o listings,
          skipped_pages |-> skipped,
          consecutive_empty_pages |-> 0,
          break |-> FALSE,
          events |-> <<<<"extend", p>>, <<"sleep", p>>>>]

\* LoopBody going on after an empty page without recording it.
LoopBody_NoRecord(p, listings, acc, skipped, count) ==
    IF listings = <<>>
    THEN [all_listings |-> acc,
          skipped_pages |-> skipped,
          consecutive_empty_pages |-> count + 1,
          break |-> count + 1 >= max_consecutive_empty,
          events |-> <<>>]
    ELSE [all_listings |-> acc \o listings,
          skipped_pages |-> skipped,
          consecutive_empty_pages |-> 0,
          break |-> FALSE,
          events |-> <<<<"extend", p>>, <<"sleep", p>>>>]

\* LoopBody without the early stop: the loop never breaks.
LoopBody_NeverBreak(p, listings, acc, skipped, count) ==
    IF listings = <<>>
    THEN [all_listings |-> acc,
          skipped_pages |-> Append(skipped, p),
          consecutive_empty_pages |-> count + 1,
          break |-> FALSE,
          events |-> <<<<"skip", p>>>>]
    ELSE [all_listings |-> acc \o listings,
          skipped_pages |-> skipped,
          consecutive_empty_pages |-> 0,
          break |-> FALSE,
          events |-> <<<<"extend", p>>, <<"sleep", p>>>>]

\* LoopBody with the page's listings put in front of the aggregate.
LoopBody_Prepend(p, listings, acc, skipped, count) ==
    IF listings = <<>>
    THEN [all_listings |-> acc,
          skipped_pages |-> Append(skipped, p),
          consecutive_empty_pages |-> count + 1,
          break |-> count + 1 >= max_consecutive_empty,
          events |-> <<<<"skip", p>>>>]
    ELSE [all_listings |-> listings \o acc,
          skipped_pages |-> skipped,
          consecutive_empty_pages |-> 0,
          break |-> FALSE,
          events |-> <<<<"extend", p>>, <<"sleep", p>>>>]

\* The loop body after scrape_page returned `listings` for page p: the
\* new values of the three locals, whether the loop breaks, and what the
\* body did in order: it recorded the page as skipped, or it extended the
\* aggregate and then slept.
\* LoopBody that records every page as skipped, also the non-empty ones.
LoopBody_SkipAll(p, listings, acc, skipped, count) ==
    IF listings = <<>>
    THEN [all_listings |-> acc,
          skipped_pages |-> Append(skipped, p),
          consecutive_empty_pages |-> count + 1,
          break |-> count + 1 >= max_consecutive_empty,
          events |-> <<<<"skip", p>>>>]
    ELSE [all_listings |-> acc \o listings,
          skipped_pages |-> Append(skipped, p),
          consecutive_empty_pages |-> 0,
          break |-> FALSE,
          events |-> <<<<"extend", p>>, <<"sleep", p>>>>]

LoopBody(p, listings, acc, skipped, count) ==
    IF listings = <<>>
    THEN [all_listings |-> acc,
          skipped_pages |-> Append(skipped, p),
          consecutive_empty_pages |-> count + 1,
          break |-> count + 1 >= max_consecutive_empty,
          events |-> <<<<"skip", p>>>>]
    ELSE [all_listings |-> acc \o listings,
          skipped_pages |-> skipped,
          consecutive_empty_pages |-> 0,
          break |-> FALSE,
          events |-> <<<<"extend", p>>, <<"sleep", p>>>>]

\* What the site can answer for page p: the rich documents of the short
\* crawls, or the three answers of the long ones.
Responses(rich, p) == IF rich THEN FullResponses(p) ELSE CrawlResponses(p)

\* What get_random_delay() returns in a crawl: any of its values, or
\* always the shortest where the delays are not varied.
Delays(varied) == IF varied THEN get_random_delay ELSE {DELAY_MIN}

\* scrape_page asking a second time when the request failed.
Requests_RetryOnFailure(p, resp) ==
    IF resp.kind # "ok" THEN <<<<"fetch", p>>, <<"fetch", p>>>>
    ELSE <<<<"fetch", p>>>>

\* The HTTP requests one scrape_page(p) call issues, whatever the response
\* turns out to be: the single session.get of its try block.
Requests(p, resp) == <<<<"fetch", p>>>>

\* The body slept: time.sleep(self.get_random_delay()) was reached.
Slept(b) == \E i \in 1..Len(b.events) : b.events[i][1] = "sleep"

\* One pass of the loop for page page_num, the site answering with one of
\* Responses(rich, page_num) and the sleep lasting one of Delays(varied).
\* An exception leaving scrape_page leaves the loop and scrape_page_range.
CrawlPage(rich, varied) ==
    /\ pc = "crawl"
    /\ page_num <= end_page
    /\ \E resp \in Responses(rich, page_num), delay \in Delays(varied) :
         LET r == scrape_page(resp)
             b == LoopBody(page_num, r.value, all_listings, skipped_pages,
                           consecutive_empty_pages)
         IN  /\ lastResp' = resp
             /\ IF r.exc # "none"
                THEN /\ pc' = "aborted"
                     /\ ret' = [exc |-> r.exc, value |-> [listings |-> <<>>]]
                     /\ events' = events \o Requests(page_num, resp)
                     /\ UNCHANGED <<page_num, all_listings, skipped_pages,
                                    consecutive_empty_pages, fetchLog,
                                    lastDelay>>
                ELSE /\ fetchLog' = Append(fetchLog,
                            [page |-> page_num, listings |-> r.value])
                     /\ ret' = ret
                     /\ all_listings' = b.all_listings
                     /\ skipped_pages' = b.skipped_pages
                     /\ consecutive_empty_pages' = b.consecutive_empty_pages
                     /\ events' = events \o Requests(page_num, resp)
                                         \o b.events
                     /\ lastDelay' = IF Slept(b) THEN delay ELSE lastDelay
                     /\ pc' = IF b.break THEN "stopped_gap" ELSE "crawl"
                     /\ page_num' = IF b.break THEN page_num ELSE page_num + 1
    /\ UNCHANGED <<argv, printed, spiderCreated, start_page, end_page, skipLog,
                   logBefore, csvFile, saveRet, ops, loaded, node, parsed,
                   crawlLog,
                   layoutResult, report, cityVars>>

\* The loop ends because range(start_page, end_page + 1) is used up.
RangeEnd ==
    /\ pc = "crawl"
    /\ page_num > end_page
    /\ pc' = "stopped_range"
    /\ UNCHANGED <<argv, printed, spiderCreated, start_page, end_page,
                   page_num, all_listings, skipped_pages,
                   consecutive_empty_pages, lastResp, fetchLog, events, ret,
                   skipLog, logBefore, csvFile, saveRet, ops, loaded, node,
                   parsed,
                   lastDelay, crawlLog,
                   layoutResult, report, cityVars>>

\* save_skipped_pages opening the log with mode 'w': earlier lines are lost.
save_skipped_pages_Overwrite(log, pages) ==
    IF pages = <<>> THEN log ELSE pages

\* save_skipped_pages writing the new page numbers in front of the log.
save_skipped_pages_Prepend(log, pages) ==
    IF pages = <<>> THEN log ELSE pages \o log

\* save_skipped_pages: the page numbers appended to the log, one a line;
\* nothing is written for an empty list.
save_skipped_pages(log, pages) ==
    IF pages = <<>> THEN log ELSE log \o pages

\* What scrape_page_range hands its caller.
ReturnValue == [listings |-> all_listings]

\* After the loop: the skipped pages are logged and the aggregate returned.
FinishCrawl ==
    /\ pc \in {"stopped_gap", "stopped_range"}
    /\ skipLog' = IF skipped_pages # <<>>
                  THEN save_skipped_pages(skipLog, skipped_pages)
                  ELSE skipLog
    /\ ret' = Return(ReturnValue)
    /\ crawlLog' = [crawlLog EXCEPT !.skipped = Append(@, skipped_pages)]
    /\ pc' = "returned"
    /\ UNCHANGED <<argv, printed, spiderCreated, start_page, end_page,
                   page_num, all_listings, skipped_pages,
                   consecutive_empty_pages, lastResp, fetchLog, events,
                   logBefore, csvFile, saveRet, ops, loaded, node, parsed,
                   lastDelay,
                   layoutResult, report, cityVars>>

\* One save_to_csv call recorded in ops.
SaveOp(listings, append, before, result) ==
    [listings |-> listings, append |-> append, before |-> before,
     after |-> result.file, exc |-> result.exc, value |-> result.value,
     makedirs |-> result.makedirs]

\* The rest of main: a non-empty result is saved in append mode.
MainSave ==
    /\ pc = "returned"
    /\ LET listings == ret.value.listings
           result == save_to_csv(listings, TRUE, csvFile)
       IN  IF listings # <<>>
           THEN /\ csvFile' = result.file
                /\ saveRet' = result
                /\ ops' = Append(ops, SaveOp(listings, TRUE, csvFile, result))
                /\ printed' = IF result.exc = "none" THEN "saved" ELSE printed
                /\ pc' = IF result.exc = "none" THEN "done" ELSE "aborted"
           ELSE /\ printed' = "no_data"
                /\ pc' = "done"
                /\ UNCHANGED <<csvFile, saveRet, ops>>
    /\ UNCHANGED <<argv, spiderCreated, start_page, end_page, page_num,
                   all_listings, skipped_pages, consecutive_empty_pages,
                   lastResp, fetchLog, events, ret, skipLog, logBefore,
                   loaded, node, parsed,
                   lastDelay, crawlLog,
                   layoutResult, report, cityVars>>

Next ==
    \/ MainArgs
    \/ Prompt
    \/ StartCrawl
    \/ CrawlPage(FALSE, FALSE)
    \/ RangeEnd
    \/ FinishCrawl
    \/ MainSave

\* The scraper started from its command line.
Spec == Init /\ [][Next]_vars

\* ------------------------------------- direct calls of scrape_page_range

\* The ranges of the direct calls: one page, three pages, the last two of
\* three, and an empty range.
ShortRanges == {<<1, 1>>, <<1, 3>>, <<2, 3>>, <<2, 1>>}

\* scrape_page_range(start, end) is about to be called on a spider, as
\* scrape_all calls it.
InitPage ==
    /\ pc = "call"
    /\ argv = <<>>
    /\ printed = "none"
    /\ spiderCreated = TRUE
    /\ \E r \in ShortRanges : start_page = r[1] /\ end_page = r[2]
    /\ page_num = 0
    /\ all_listings = <<>>
    /\ skipped_pages = <<>>
    /\ consecutive_empty_pages = 0
    /\ lastResp = NoResponse
    /\ fetchLog = <<>>
    /\ events = <<>>
    /\ ret = NoReturn
    /\ \E disk \in {FreshDisk, UsedDisk} :
         skipLog = disk.skipLog /\ csvFile = disk.csvFile
    /\ logBefore = <<>>
    /\ saveRet = NoSave
    /\ ops = <<>>
    /\ loaded = None
    /\ node = BlankNode
    /\ parsed = None
    /\ lastDelay = 0
    /\ crawlLog = [initial |-> skipLog, skipped |-> <<>>]
    /\ layoutResult = None
    /\ report = NoReport
    /\ max_retries = 0
    /\ min_records = 0
    /\ max_pages = None
    /\ estimated_pages = None
    /\ page_listings = <<>>
    /\ attempt = 0
    /\ tries = <<>>

\* The call itself.
CallRange ==
    /\ pc = "call"
    /\ EnterRange
    /\ pc' = "crawl"
    /\ UNCHANGED <<argv, printed, spiderCreated, start_page, end_page,
                   skipLog, csvFile, saveRet, ops, loaded, node, parsed,
                   crawlLog,
                   layoutResult, report, cityVars>>

NextPage ==
    \/ CallRange
    \/ CrawlPage(TRUE, FALSE)
    \/ RangeEnd
    \/ FinishCrawl

\* One short crawl over every kind of response and document.
SpecPage == InitPage /\ [][NextPage]_vars

\* ------------------------------------ repeated calls of scrape_page_range

\* The caller chooses the range of its next scrape_page_range call.
CallAgain ==
    /\ pc = "returned"
    /\ Len(crawlLog.skipped) < MaxCalls
    /\ \E r \in ShortRanges : start_page' = r[1] /\ end_page' = r[2]
    /\ pc' = "call"
    /\ UNCHANGED <<argv, printed, spiderCreated, page_num, all_listings,
                   skipped_pages, consecutive_empty_pages, lastResp, fetchLog,
                   events, ret, skipLog, logBefore, csvFile, saveRet, ops,
                   loaded, node, parsed, lastDelay, crawlLog,
                   layoutResult, report, cityVars>>

NextLog ==
    \/ CallRange
    \/ CrawlPage(FALSE, TRUE)
    \/ RangeEnd
    \/ FinishCrawl
    \/ CallAgain

\* Up to MaxCalls crawls one after the other on the same data directory,
\* with every delay get_random_delay can draw.
SpecLog == InitPage /\ [][NextLog]_vars

\* --------------------------------------------------- parse_listing alone

TitleTexts ==
    {<<"zheng", "zu", "A">>, <<"he", "zu", "B">>, <<"he", "zu", "zheng", "zu">>,
     <<"C">>, <<" ", "C", " ">>, <<>>}

Part(kind, text) == [kind |-> kind, text |-> text]

\* Description paragraphs: the site's usual one (three links, area,
\* orientation, layout, hidden floor), one that starts with the area, one
\* with two links only, one without any text.
DesUsual ==
    [present |-> TRUE,
     parts |-> <<Part("a", <<"D">>), Part("text", <<"-">>),
                 Part("a", <<"S">>), Part("text", <<"-">>),
                 Part("a", <<"C">>), Part("text", <<"/">>),
                 Part("text", <<" ", "8", "6", ".", "5", "m2", " ">>),
                 Part("text", <<"/">>), Part("text", <<"N">>),
                 Part("text", <<"/">>),
                 Part("text", <<"2", "shi", "1", "ting", "1", "wei">>),
                 Part("hide", <<"/", "M", "lou", "ceng", " ",
                                "(", "1", "6", "ceng", ")">>)>>]

DesAreaFirst ==
    [present |-> TRUE,
     parts |-> <<Part("text", <<"4", "0", "m2">>), Part("text", <<"/">>),
                 Part("text", <<" ", "N", " ">>), Part("text", <<"/">>),
                 Part("text", <<"1", "shi", "0", "ting", "1", "wei">>)>>]

DesTwoLinks ==
    [present |-> TRUE,
     parts |-> <<Part("a", <<"D">>), Part("text", <<"-">>),
                 Part("a", <<"S">>), Part("text", <<"/">>),
                 Part("text", <<"4", "0", "m2">>),
                 Part("hide", <<"/", "M", "lou", "ceng">>)>>]

DesEmpty == [present |-> TRUE, parts |-> <<>>]

\* A description paragraph of n links joined by "-", followed by area,
\* orientation, layout and the hidden floor.
DesLinks(n) ==
    [present |-> TRUE,
     parts |-> Flatten([i \in 1..n |->
                          <<Part("a", <<" ", DigitChar(i)>>)>>
                            \o (IF i < n THEN <<Part("text", <<"-">>)>>
                                ELSE <<>>)])
                 \o <<Part("text", <<"/">>), Part("text", <<"4", "0", "m2">>),
                      Part("text", <<"/">>), Part("text", <<"N">>),
                      Part("text", <<"/">>),
                      Part("text", <<"1", "shi", "1", "ting", "1", "wei">>),
                      Part("hide", <<"/", "L", "lou", "ceng", " ",
                                     "(", "6", "ceng", ")">>)>>]

DesPool ==
    {NoDes, DesUsual, DesAreaFirst, DesTwoLinks, DesEmpty,
     DesLinks(1), DesLinks(4)}

\* Bottom paragraphs: none, and up to MaxItems <i> tags.
TagTexts == {<<"x">>, <<" ", "y">>, <<" ">>}

BottomPool ==
    {NoBottom} \cup {[present |-> TRUE, tags |-> ts] :
                        ts \in SeqsUpTo(TagTexts, MaxItems)}

BrandPool ==
    {NoBrand,
     [present |-> TRUE, span |-> Elem(<<"L", "J">>), text |-> <<"L", "J", "x">>],
     [present |-> TRUE, span |-> Absent, text |-> <<" ", "B", "K">>]}

\* Price spans: none, one without <em>, and <em> texts int() takes or not.
PricePool ==
    {NoPrice, [present |-> TRUE, em |-> Absent]}
      \cup {[present |-> TRUE, em |-> Elem(t)] :
               t \in {<<"5", "2", "0", "0">>, <<" ", "7">>, <<"a">>, <<>>,
                      <<"-", "3">>, <<"5", ".", "5">>}}

ParseNodes ==
    {[fault |-> f, title |-> t, des |-> d, bottom |-> b, brand |-> r,
      price |-> q] :
        f \in BOOLEAN, t \in {Absent} \cup {Elem(x) : x \in TitleTexts},
        d \in DesPool, b \in BottomPool, r \in BrandPool, q \in PricePool}

\* parse_listing is about to be applied to one listing node.
InitParse ==
    /\ pc = "parse"
    /\ node \in ParseNodes
    /\ parsed = None
    /\ argv = <<>>
    /\ printed = "none"
    /\ spiderCreated = TRUE
    /\ start_page = 0
    /\ end_page = 0
    /\ page_num = 0
    /\ all_listings = <<>>
    /\ skipped_pages = <<>>
    /\ consecutive_empty_pages = 0
    /\ lastResp = NoResponse
    /\ fetchLog = <<>>
    /\ events = <<>>
    /\ ret = NoReturn
    /\ skipLog = <<>>
    /\ logBefore = <<>>
    /\ csvFile = NoFile
    /\ saveRet = NoSave
    /\ ops = <<>>
    /\ loaded = None
    /\ lastDelay = 0
    /\ crawlLog = [initial |-> skipLog, skipped |-> <<>>]
    /\ layoutResult = None
    /\ report = NoReport
    /\ max_retries = 0
    /\ min_records = 0
    /\ max_pages = None
    /\ estimated_pages = None
    /\ page_listings = <<>>
    /\ attempt = 0
    /\ tries = <<>>

ParseListing ==
    /\ pc = "parse"
    /\ parsed' = parse_listing(node)
    /\ pc' = "parsed"
    /\ UNCHANGED <<argv, printed, spiderCreated, start_page, end_page,
                   page_num, all_listings, skipped_pages,
                   consecutive_empty_pages, lastResp, fetchLog, events, ret,
                   skipLog, logBefore, csvFile, saveRet, ops, loaded, node,
                   lastDelay, crawlLog,
                   layoutResult, report, cityVars>>

NextParse == ParseListing

\* parse_listing on every node of ParseNodes.
SpecParse == InitParse /\ [][NextParse]_vars

\* ------------------------------------------------- save_to_csv, load_data

\* A listing whose title reads "NA", without price.
NaNode ==
    [fault |-> FALSE, title |-> Elem(<<"N", "A">>), des |-> NoDes,
     bottom |-> NoBottom,
     brand |-> [present |-> TRUE, span |-> Absent, text |-> <<"L", "J">>],
     price |-> NoPrice]

\* A listing with every sub-element.
FullNode ==
    [fault |-> FALSE, title |-> Elem(<<"he", "zu", "B">>), des |-> DesUsual,
     bottom |-> [present |-> TRUE, tags |-> <<<<"x">>, <<"y">>>>],
     brand |-> [present |-> TRUE, span |-> Elem(<<"L", "J">>), text |-> <<"L", "J">>],
     price |-> [present |-> TRUE, em |-> Elem(<<"5", "2", "0", "0">>)]]

\* The records of the datasets: what parse_listing makes of three nodes.
RecordPool ==
    {parse_listing(GoodNode(1)), parse_listing(NaNode), parse_listing(FullNode)}

Datasets == SeqsUpTo(RecordPool, MaxRows)

\* save_to_csv is about to be called twice on the same destination.
InitCsv ==
    /\ pc = "save_first"
    /\ csvFile \in {NoFile, BadFile, TableFile(EarlierTable)}
    /\ saveRet = NoSave
    /\ ops = <<>>
    /\ loaded = None
    /\ argv = <<>>
    /\ printed = "none"
    /\ spiderCreated = TRUE
    /\ start_page = 0
    /\ end_page = 0
    /\ page_num = 0
    /\ all_listings = <<>>
    /\ skipped_pages = <<>>
    /\ consecutive_empty_pages = 0
    /\ lastResp = NoResponse
    /\ fetchLog = <<>>
    /\ events = <<>>
    /\ ret = NoReturn
    /\ skipLog = <<>>
    /\ logBefore = <<>>
    /\ node = BlankNode
    /\ parsed = None
    /\ lastDelay = 0
    /\ crawlLog = [initial |-> skipLog, skipped |-> <<>>]
    /\ layoutResult = None
    /\ report = NoReport
    /\ max_retries = 0
    /\ min_records = 0
    /\ max_pages = None
    /\ estimated_pages = None
    /\ page_listings = <<>>
    /\ attempt = 0
    /\ tries = <<>>

\* One call save_to_csv(listings, append=append).
SaveCall ==
    /\ pc \in {"save_first", "save_second"}
    /\ \E listings \in Datasets, append \in BOOLEAN :
         LET result == save_to_csv(listings, append, csvFile)
         IN  /\ csvFile' = result.file
             /\ saveRet' = result
             /\ ops' = Append(ops, SaveOp(listings, append, csvFile, result))
    /\ pc' = IF pc = "save_first" THEN "save_second" ELSE "saved"
    /\ UNCHANGED <<argv, printed, spiderCreated, start_page, end_page,
                   page_num, all_listings, skipped_pages,
                   consecutive_empty_pages, lastResp, fetchLog, events, ret,
                   skipLog, logBefore, loaded, node, parsed,
                   lastDelay, crawlLog,
                   layoutResult, report, cityVars>>

\* load_data() reads the file back.
LoadCall ==
    /\ pc \in {"save_second", "saved"}
    /\ loaded' = load_data(csvFile)
    /\ pc' = "loaded"
    /\ UNCHANGED <<argv, printed, spiderCreated, start_page, end_page,
                   page_num, all_listings, skipped_pages,
                   consecutive_empty_pages, lastResp, fetchLog, events, ret,
                   skipLog, logBefore, csvFile, saveRet, ops, node, parsed,
                   lastDelay, crawlLog,
                   layoutResult, report, cityVars>>

NextCsv ==
    \/ SaveCall
    \/ LoadCall

\* Two saves to one destination, then a load.
SpecCsv == InitCsv /\ [][NextCsv]_vars

\* ------------------------------------------- analysis/layout_analyzer.py

\* In this part IntV is a Python int and FloatV a numpy.float64 (in
\* tenths): the cells of the numeric columns of a loaded DataFrame and what
\* its aggregations return.
IsNumber(v) == v.t \in {"int", "float"}

Tenths(v) == IF v.t = "int" THEN 10 * v.v ELSE v.v

\* One row of the loaded table, reduced to the three columns the analysis
\* reads; price in yuan, area in square metres, bedrooms a count.
LayoutRow(price, area, bedrooms) ==
    [price |-> price, area |-> area, bedrooms |-> bedrooms]

\* Rows of one, two, three and four bedrooms, and rows with a missing or
\* zero value.
LayoutRows ==
    {LayoutRow(FloatV(30000), FloatV(500), FloatV(10)),
     LayoutRow(FloatV(50000), FloatV(400), FloatV(10)),
     LayoutRow(FloatV(60000), FloatV(800), FloatV(20)),
     LayoutRow(FloatV(90000), FloatV(1200), FloatV(30)),
     LayoutRow(FloatV(120000), FloatV(1500), FloatV(40)),
     LayoutRow(NaN, FloatV(800), FloatV(20)),
     LayoutRow(FloatV(30000), FloatV(0), FloatV(10)),
     LayoutRow(FloatV(0), FloatV(500), FloatV(30)),
     LayoutRow(FloatV(60000), FloatV(800), NaN)}

\* The tables load_data can hand to the analysis.
LayoutFrames ==
    {[cols |-> <<"price", "area", "bedrooms">>, rows |-> rows] :
        rows \in SeqsUpTo(LayoutRows, MaxLayoutRows)}

\* df.dropna(subset=['price', 'area', 'bedrooms']) and the three > 0 tests.
ValidRow(r) ==
    \A c \in {"price", "area", "bedrooms"} : IsNumber(r[c]) /\ Tenths(r[c]) > 0

\* valid_data['bedrooms'].isin([1, 2, 3])
MainLayoutRow(r) == Tenths(r.bedrooms) \in {10, 20, 30}

\* f'{bedrooms}居' for bedrooms in [1, 2, 3] ("ju" spells the CJK character).
LayoutName(bedrooms) ==
    CASE bedrooms = 1 -> "1ju" [] bedrooms = 2 -> "2ju" [] bedrooms = 3 -> "3ju"

RECURSIVE SumTenths(_)
SumTenths(vals) ==
    IF vals = <<>> THEN 0 ELSE Tenths(Head(vals)) + SumTenths(Tail(vals))

\* Series.mean() of a non-empty series: a numpy.float64, here rounded down
\* to tenths (the mean of positive values stays positive).
SeriesMean(vals) == FloatV(SumTenths(vals) \div Len(vals))

\* The statistics of one layout that the report computes with: mean,
\* highest and lowest price, number of rows, mean area. (Median, standard
\* deviations, quantiles and the price per square metre are only formatted
\* by the report; formatting a number or NaN does not raise.)
LayoutStatsOf(rows) ==
    LET prices == [i \in 1..Len(rows) |-> rows[i].price]
        areas == [i \in 1..Len(rows) |-> rows[i].area]
    IN  [mean_price |-> SeriesMean(prices),
         max_price |-> FloatV(Max({Tenths(prices[i]) : i \in 1..Len(rows)})),
         min_price |-> FloatV(Min({Tenths(prices[i]) : i \in 1..Len(rows)})),
         count |-> IntV(Len(rows)),
         mean_area |-> SeriesMean(areas)]

\* analyze_layout_statistics(df): None, or the rows of one to three
\* bedrooms and the statistics of every layout that has rows.
analyze_layout_statistics(df) ==
    IF df = None \/ df.rows = <<>> THEN None
    ELSE LET valid_data == SelectSeq(df.rows, ValidRow)
             main_layouts == SelectSeq(valid_data, MainLayoutRow)
             OfLayout(b) ==
                 SelectSeq(main_layouts,
                           LAMBDA r : Tenths(r.bedrooms) = 10 * b)
             present == {b \in {1, 2, 3} : Len(OfLayout(b)) > 0}
         IN  IF valid_data = <<>> THEN None
             ELSE IF main_layouts = <<>> THEN None
             ELSE [main_layouts |-> [cols |-> df.cols, rows |-> main_layouts],
                   layout_stats |->
                       [k \in {LayoutName(b) : b \in present} |->
                           LayoutStatsOf(OfLayout(
                               CHOOSE b \in present : LayoutName(b) = k))]]

\* layout_stats.get(name, {}).get('均价', 0): the mean price of the layout,
\* or the Python int 0 when the layout has no entry.
MeanPriceOrZero(layout_stats, name) ==
    IF name \in DOMAIN layout_stats THEN layout_stats[name].mean_price
    ELSE IntV(0)

\* b - a if b > 0 and a > 0 else 0
PriceDiff(a, b) ==
    IF Tenths(b) > 0 /\ Tenths(a) > 0 THEN FloatV(Tenths(b) - Tenths(a))
    ELSE IntV(0)

\* a / b: between two Python numbers a zero divisor raises
\* ZeroDivisionError; with a numpy.float64 on either side the result is
\* inf or nan and nothing is raised.
TrueDiv(a, b) ==
    IF Tenths(b) = 0
    THEN IF a.t = "int" /\ b.t = "int" THEN Raise("ZeroDivisionError")
         ELSE Return(NaN)
    ELSE Return(FloatV((10 * Tenths(a)) \div Tenths(b)))

\* generate_layout_report(df, layout_stats): nothing for no data; else the
\* report text is built - the two growth percentages divide by the mean
\* price of the one-bedroom and of the two-bedroom layout - and then
\* written. An exception while the text is built leaves the function
\* before the file is opened.
generate_layout_report(df, layout_stats) ==
    IF df = None \/ DOMAIN layout_stats = {}
    THEN [called |-> TRUE, exc |-> "none", written |-> FALSE]
    ELSE LET avg_price_1bed == MeanPriceOrZero(layout_stats, "1ju")
             avg_price_2bed == MeanPriceOrZero(layout_stats, "2ju")
             avg_price_3bed == MeanPriceOrZero(layout_stats, "3ju")
             price_diff_1to2 == PriceDiff(avg_price_1bed, avg_price_2bed)
             price_diff_2to3 == PriceDiff(avg_price_2bed, avg_price_3bed)
             growth_1to2 == TrueDiv(price_diff_1to2, avg_price_1bed)
             growth_2to3 == TrueDiv(price_diff_2to3, avg_price_2bed)
         IN  IF growth_1to2.exc # "none"
             THEN [called |-> TRUE, exc |-> growth_1to2.exc, written |-> FALSE]
             ELSE IF growth_2to3.exc # "none"
             THEN [called |-> TRUE, exc |-> growth_2to3.exc, written |-> FALSE]
             ELSE [called |-> TRUE, exc |-> "none", written |-> TRUE]

\* main() of layout_analyzer.py has loaded a table.
InitLayout ==
    /\ pc = "analyze"
    /\ loaded \in LayoutFrames
    /\ argv = <<>>
    /\ printed = "none"
    /\ spiderCreated = FALSE
    /\ start_page = 0
    /\ end_page = 0
    /\ page_num = 0
    /\ all_listings = <<>>
    /\ skipped_pages = <<>>
    /\ consecutive_empty_pages = 0
    /\ lastResp = NoResponse
    /\ fetchLog = <<>>
    /\ events = <<>>
    /\ ret = NoReturn
    /\ skipLog = <<>>
    /\ logBefore = <<>>
    /\ csvFile = NoFile
    /\ saveRet = NoSave
    /\ ops = <<>>
    /\ node = BlankNode
    /\ parsed = None
    /\ lastDelay = 0
    /\ crawlLog = [initial |-> skipLog, skipped |-> <<>>]
    /\ layoutResult = None
    /\ report = NoReport
    /\ max_retries = 0
    /\ min_records = 0
    /\ max_pages = None
    /\ estimated_pages = None
    /\ page_listings = <<>>
    /\ attempt = 0
    /\ tries = <<>>

\* result = analyze_layout_statistics(df); main returns when it is None.
AnalyzeLayout ==
    /\ pc = "analyze"
    /\ layoutResult' = analyze_layout_statistics(loaded)
    /\ pc' = IF layoutResult' = None THEN "no_layout_data" ELSE "report"
    /\ UNCHANGED <<argv, printed, spiderCreated, start_page, end_page,
                   page_num, all_listings, skipped_pages,
                   consecutive_empty_pages, lastResp, fetchLog, events, ret,
                   skipLog, logBefore, csvFile, saveRet, ops, loaded, node,
                   parsed, lastDelay, crawlLog, report, cityVars>>

\* generate_layout_report(main_layouts, layout_stats)
ReportLayout ==
    /\ pc = "report"
    /\ report' = generate_layout_report(layoutResult.main_layouts,
                                        layoutResult.layout_stats)
    /\ pc' = IF report'.exc = "none" THEN "reported" ELSE "report_raised"
    /\ UNCHANGED <<argv, printed, spiderCreated, start_page, end_page,
                   page_num, all_listings, skipped_pages,
                   consecutive_empty_pages, lastResp, fetchLog, events, ret,
                   skipLog, logBefore, csvFile, saveRet, ops, loaded, node,
                   parsed, lastDelay, crawlLog, layoutResult, cityVars>>

NextLayout ==
    \/ AnalyzeLayout
    \/ ReportLayout

\* The layout analysis of one loaded table.
SpecLayout == InitLayout /\ [][NextLayout]_vars

\* ---------------------- multi-city scraper (scripts/scraping/lianjia_scraper.py)

\* The largest SCRAPER_CONFIG['max_retries'] of the model.
MaxRetries == 3

\* What one attempt of scrape_city_page can meet:
\*   "RequestException" - session.get or raise_for_status raises
\*   "antibot"          - the response is the anti-bot page
\*   "empty"            - a page without listing nodes
\*   "dropped"          - listing nodes, every one parsed to None or {}
\*   "ok"               - listing nodes that parse to records
CityOutcomes == {"RequestException", "antibot", "empty", "dropped", "ok"}

\* parsed_listings of page p: one or two records on a page with listings.
CityListings(p, outcome) ==
    IF outcome = "ok"
    THEN [i \in 1..(1 + (p % 2)) |-> [page |-> p, item |-> i]]
    ELSE <<>>

\* for attempt in range(max_retries) with every attempt allowed.
MoreAttempts_Unbounded(a, retries) == a >= 0

\* for attempt in range(max_retries): another iteration follows.
MoreAttempts(a, retries) == a < retries

\* The seconds slept after failed attempt a (0: no sleep).
CityWait(outcome, a, retries) ==
    IF outcome = "antibot" THEN 10 * (a + 1)
    ELSE IF a < retries - 1 THEN 5 * (a + 1)
    ELSE 0

\* max(city_info['min_records'] // 30 + 10, 50)
EstimatedPages(records) == Max({records \div 30 + 10, 50})

\* scrape_city(city_code, max_pages) is about to be called.
InitCity ==
    /\ pc = "city_call"
    /\ max_retries \in 0..MaxRetries
    /\ min_records \in {2, 1230}
    /\ max_pages \in {None, IntV(1), IntV(2)}
    /\ estimated_pages = None
    /\ page_listings = <<>>
    /\ attempt = 0
    /\ tries = <<>>
    /\ argv = <<>>
    /\ printed = "none"
    /\ spiderCreated = TRUE
    /\ start_page = 0
    /\ end_page = 0
    /\ page_num = 0
    /\ all_listings = <<>>
    /\ skipped_pages = <<>>
    /\ consecutive_empty_pages = 0
    /\ lastResp = NoResponse
    /\ fetchLog = <<>>
    /\ events = <<>>
    /\ ret = NoReturn
    /\ skipLog = <<>>
    /\ logBefore = <<>>
    /\ csvFile = NoFile
    /\ saveRet = NoSave
    /\ ops = <<>>
    /\ loaded = None
    /\ node = BlankNode
    /\ parsed = None
    /\ lastDelay = 0
    /\ crawlLog = [initial |-> skipLog, skipped |-> <<>>]
    /\ layoutResult = None
    /\ report = NoReport

\* scrape_city up to its loop: the page estimate, or the read of the
\* unassigned local estimated_pages when max_pages is given.
CallCity ==
    /\ pc = "city_call"
    /\ all_listings' = <<>>
    /\ page_num' = 1
    /\ IF max_pages = None
       THEN /\ estimated_pages' = EstimatedPages(min_records)
            /\ pc' = "city_loop"
            /\ ret' = ret
       ELSE /\ estimated_pages' = estimated_pages
            /\ pc' = "city_raised"
            /\ ret' = Raise("UnboundLocalError")
    /\ UNCHANGED <<argv, printed, spiderCreated, start_page, end_page,
                   skipped_pages, consecutive_empty_pages, lastResp,
                   fetchLog, events, skipLog, logBefore, csvFile, saveRet,
                   ops, loaded, node, parsed, lastDelay, crawlLog,
                   layoutResult, report, max_retries, min_records,
                   max_pages, page_listings, attempt, tries>>

\* The loop test and the min_records test of scrape_city; scrape_city_page
\* is entered, or the aggregate returned.
CityLoop ==
    /\ pc = "city_loop"
    /\ IF page_num <= estimated_pages /\ Len(all_listings) < min_records
       THEN /\ pc' = "city_attempt"
            /\ attempt' = 0
            /\ tries' = <<>>
            /\ ret' = ret
       ELSE /\ pc' = "city_returned"
            /\ ret' = Return(all_listings)
            /\ UNCHANGED <<attempt, tries>>
    /\ UNCHANGED <<argv, printed, spiderCreated, start_page, end_page,
                   page_num, all_listings, skipped_pages,
                   consecutive_empty_pages, lastResp, fetchLog, events,
                   skipLog, logBefore, csvFile, saveRet, ops, loaded, node,
                   parsed, lastDelay, crawlLog, layoutResult, report,
                   max_retries, min_records, max_pages, estimated_pages,
                   page_listings>>

\* One attempt of scrape_city_page. A failed attempt sleeps and goes on
\* with the next one; a page is returned to scrape_city, which stops on an
\* empty one and otherwise extends the aggregate and moves to the next page.
CityAttempt ==
    /\ pc = "city_attempt"
    /\ MoreAttempts(attempt, max_retries)
    /\ \E outcome \in CityOutcomes :
         LET failed == outcome \in {"RequestException", "antibot"}
             wait == IF failed THEN CityWait(outcome, attempt, max_retries)
                     ELSE 0
             result == CityListings(page_num, outcome)
         IN  /\ tries' = Append(tries, [attempt |-> attempt,
                                        outcome |-> outcome, wait |-> wait])
             /\ IF failed
                THEN /\ attempt' = attempt + 1
                     /\ pc' = "city_attempt"
                     /\ UNCHANGED <<page_listings, all_listings, page_num, ret>>
                ELSE /\ attempt' = attempt
                     /\ page_listings' = result
                     /\ IF result = <<>>
                        THEN /\ pc' = "city_returned"
                             /\ ret' = Return(all_listings)
                             /\ UNCHANGED <<all_listings, page_num>>
                        ELSE /\ all_listings' = all_listings \o result
                             /\ page_num' = page_num + 1
                             /\ pc' = "city_loop"
                             /\ ret' = ret
    /\ UNCHANGED <<argv, printed, spiderCreated, start_page, end_page,
                   skipped_pages, consecutive_empty_pages, lastResp,
                   fetchLog, events, skipLog, logBefore, csvFile, saveRet,
                   ops, loaded, node, parsed, lastDelay, crawlLog,
                   layoutResult, report, max_retries, min_records,
                   max_pages, estimated_pages>>

\* The attempts are used up: scrape_city_page returns [] and scrape_city
\* leaves its loop.
CityExhausted ==
    /\ pc = "city_attempt"
    /\ ~MoreAttempts(attempt, max_retries)
    /\ page_listings' = <<>>
    /\ pc' = "city_returned"
    /\ ret' = Return(all_listings)
    /\ UNCHANGED <<argv, printed, spiderCreated, start_page, end_page,
                   page_num, all_listings, skipped_pages,
                   consecutive_empty_pages, lastResp, fetchLog, events,
                   skipLog, logBefore, csvFile, saveRet, ops, loaded, node,
                   parsed, lastDelay, crawlLog, layoutResult, report,
                   max_retries, min_records, max_pages, estimated_pages,
                   attempt, tries>>

NextCity ==
    \/ CallCity
    \/ CityLoop
    \/ CityAttempt
    \/ CityExhausted

\* One scrape_city call of the multi-city scraper.
SpecCity == InitCity /\ [][NextCity]_vars

\* ================================================================ claims

\* The results of the pages fetched so far, in fetch order.
FetchedListings == [i \in 1..Len(fetchLog) |-> fetchLog[i].listings]

EmptyAt(i) == fetchLog[i].listings = <<>>

\* scrape_page_range has returned to its caller.
Returned == pc \in {"returned", "done"}

\* The fetcher of the example: records on pages 1-5, nothing on 6, 7, 8.
ExamplePrefix ==
    /\ start_page = 1
    /\ end_page = 10
    /\ Len(fetchLog) >= 8
    /\ \A i \in 1..5 : ~EmptyAt(i)
    /\ \A i \in 6..8 : EmptyAt(i)

\* C1: pages are fetched in increasing order from start_page, and the third
\* consecutive empty page is the last page fetched: the loop has exited and
\* no later page is ever requested. In the example (records on 1-5, none on
\* 6-8, range [1,10]) the last fetch is page 8 and the skipped list is
\* exactly <<6, 7, 8>>.
C1_StopAfterThreeEmpty ==
    /\ \A i \in 1..Len(fetchLog) : fetchLog[i].page = start_page + i - 1
    /\ \A i \in 1..(Len(fetchLog) - 2) :
         (EmptyAt(i) /\ EmptyAt(i + 1) /\ EmptyAt(i + 2))
           => /\ i + 2 = Len(fetchLog)
              /\ pc # "crawl"
    /\ ExamplePrefix
         => /\ Len(fetchLog) = 8
            /\ fetchLog[8].page = 8
            /\ skipped_pages = <<6, 7, 8>>
            /\ pc \in {"stopped_gap", "returned", "done"}

C1_Witness ==
    /\ pc = "done"
    /\ ExamplePrefix
    /\ Len(fetchLog) = 8
    /\ skipped_pages = <<6, 7, 8>>
    /\ Len(all_listings) = 5

\* C2: when every fetched page returned at least one record, the returned
\* list is the concatenation of the page results of start_page..end_page in
\* page order, every page of the range fetched once.
C2_ConcatenationInPageOrder ==
    (Returned /\ \A i \in 1..Len(fetchLog) : ~EmptyAt(i))
      => /\ Len(fetchLog) = (IF end_page >= start_page
                             THEN end_page - start_page + 1 ELSE 0)
         /\ \A i \in 1..Len(fetchLog) : fetchLog[i].page = start_page + i - 1
         /\ ret.exc = "none"
         /\ ret.value.listings = Flatten(FetchedListings)

C2_Witness ==
    /\ pc = "done"
    /\ start_page = 1
    /\ end_page = 10
    /\ Len(fetchLog) = 10
    /\ \A i \in 1..10 : ~EmptyAt(i)
    /\ Len(ret.value.listings) = 10
    /\ ret.value.listings[3] = parse_listing(GoodNode(3))

\* C3: a command line (one or two arguments) whose range has
\* start > end is rejected with a printed message before the spider is
\* created and before any page is fetched.
C3_InvertedRangeRejected ==
    (pc \notin {"main", "prompt"} /\ Len(argv) \in {1, 2}
       /\ start_page > end_page)
      => /\ ~spiderCreated
         /\ events = <<>>
         /\ pc \in {"exited", "spider"}
         /\ pc = "exited" => printed \in {"error_range", "error_not_integer"}

\* C5 as claimed: the caller receives both the aggregate list and the list
\* of skipped page numbers.
C5_ReturnsBothLists ==
    Returned
      => /\ ret.exc = "none"
         /\ ret.value.listings = all_listings
         /\ "skipped_pages" \in DOMAIN ret.value
         /\ ret.value.skipped_pages = skipped_pages

\* The page numbers of the fetches that returned nothing, in fetch order.
EmptyPages ==
    LET idx == SelectSeq([i \in 1..Len(fetchLog) |-> i], EmptyAt)
    IN  [n \in 1..Len(idx) |-> fetchLog[idx[n]].page]

\* C5 (amended): in either terminal state scrape_page_range returns the
\* aggregate list of all collected records and nothing else; the skipped
\* page numbers of the crawl are not returned but appended to the
\* skipped-pages log, after the lines that were there.
C5_ReturnsAggregateLogsSkipped ==
    Returned
      => /\ ret = Return([listings |-> all_listings])
         /\ all_listings = Flatten(FetchedListings)
         /\ skipped_pages = EmptyPages
         /\ skipLog = logBefore \o skipped_pages

C5_Witness ==
    /\ pc = "returned"
    /\ consecutive_empty_pages = max_consecutive_empty
    /\ all_listings # <<>>
    /\ Len(skipped_pages) > max_consecutive_empty
    /\ logBefore # <<>>
    /\ skipLog = logBefore \o skipped_pages

\* The listing node holds the title element and the price element with
\* its <em>, and no other sub-element; its markup is well formed.
OnlyTitleAndPrice(n) ==
    /\ ~n.fault
    /\ n.title.present
    /\ n.price.present
    /\ n.price.em.present
    /\ ~n.des.present
    /\ ~n.bottom.present
    /\ ~n.brand.present

\* C6 as claimed: for a node with only the title and the price element
\* parse_listing returns a record with exactly the fields title and price.
C6_ExactlyTitleAndPrice ==
    (pc = "parsed" /\ OnlyTitleAndPrice(node))
      => /\ parsed # None
         /\ DOMAIN parsed = {"title", "price"}

\* C6 (amended): for such a node parse_listing does not fail and returns a
\* record with exactly the three fields title, rent_type (derived from the
\* title) and price; title is the stripped title text and price the
\* integer of the <em> text, 0 when int() rejects it.
C6_TitleRentTypeAndPrice ==
    (pc = "parsed" /\ OnlyTitleAndPrice(node))
      => /\ parsed # None
         /\ DOMAIN parsed = {"title", "rent_type", "price"}
         /\ parsed.title = StrV(Strip(node.title.text))
         /\ parsed.rent_type.s \in {<<"zheng", "zu">>, <<"he", "zu">>, <<"qi", "ta">>}
         /\ parsed.price.t = "int"
         /\ ~PyIntOk(Strip(node.price.em.text)) => parsed.price.v = 0

C6_Witness ==
    /\ pc = "parsed"
    /\ OnlyTitleAndPrice(node)
    /\ node.title.text = <<"C">>
    /\ parsed = [title |-> StrV(<<"C">>), rent_type |-> StrV(<<"qi", "ta">>),
                 price |-> IntV(5200)]

\* The last fetch and what scrape_page returned for it.
LastFetch == fetchLog[Len(fetchLog)]

\* A response that is one of the failure modes of a fetch: the request
\* raises, an error status, another exception, no container, no listing.
IsFailureMode(resp) ==
    \/ resp.kind \in FailureKinds
    \/ resp.kind = "ok" /\ ~resp.container
    \/ resp.kind = "ok" /\ resp.container /\ resp.items = <<>>

\* C8: no exception leaves scrape_page; after a fetch that met a failure
\* mode the page result is the empty list, the page is recorded as
\* skipped, and scrape_page_range goes on to a terminal state.
C8_FailuresGiveEmptyPage ==
    /\ pc # "aborted"
    /\ ret.exc = "none"
    /\ (pc \in {"crawl", "stopped_gap", "stopped_range", "returned"}
          /\ lastResp # NoResponse)
         => /\ fetchLog # <<>>
            /\ Len(fetchLog) = Cardinality({i \in 1..Len(events) :
                                               events[i][1] = "fetch"})
            /\ IsFailureMode(lastResp)
                 => /\ LastFetch.listings = <<>>
                    /\ skipped_pages # <<>>
                    /\ skipped_pages[Len(skipped_pages)] = LastFetch.page

C8_Witness ==
    /\ pc = "returned"
    /\ start_page = 1
    /\ end_page = 3
    /\ lastResp = Failure("Exception")
    /\ Len(fetchLog) = 3
    /\ fetchLog[1].listings # <<>>
    /\ skipped_pages = <<2, 3>>

\* The nodes of a page whose extraction succeeds with at least one field.
Extractable(n) == ~n.fault /\ parse_listing(n) # EmptyDict

\* C9: a listing whose extraction raises yields None and is the only one
\* dropped: the page result is the records of the other listings in
\* document order, and the loop goes on to the next page.
C9_FaultyListingDropped ==
    (pc \in {"crawl", "stopped_gap", "stopped_range", "returned"}
       /\ lastResp.kind = "ok" /\ lastResp.container)
      => /\ \A i \in 1..Len(lastResp.items) :
              lastResp.items[i].fault => parse_listing(lastResp.items[i]) = None
         /\ fetchLog # <<>>
         /\ LastFetch.listings =
              MapSeq(parse_listing, SelectSeq(lastResp.items, Extractable))
         /\ (pc = "crawl" /\ LastFetch.listings # <<>>)
              => /\ page_num = LastFetch.page + 1
                 /\ consecutive_empty_pages = 0

C9_Witness ==
    /\ pc = "returned"
    /\ lastResp = Page(TRUE, <<FaultNode, OtherNode(3)>>)
    /\ fetchLog[1].listings = <<parse_listing(GoodNode(1))>>
    /\ fetchLog[2].listings = <<parse_listing(OtherNode(2)),
                                parse_listing(GoodNode(2))>>
    /\ fetchLog[3].listings = <<parse_listing(OtherNode(3))>>
    /\ Len(all_listings) = 4

\* Two fields hold the same content: the same text, or two numbers of the
\* same value (1 and 1.0).
SameField(x, y) ==
    \/ x = y
    \/ /\ x \notin NaSentinels /\ y \notin NaSentinels
       /\ ParsesFloat(x) /\ ParsesFloat(y)
       /\ ParseFloatTenths(x) = ParseFloatTenths(y)

\* The call op left exactly its own records in the file: it wrote without
\* appending to loaded rows.
WroteFresh(op) ==
    /\ op.listings # <<>>
    /\ ~(op.append /\ op.before.exists /\ op.before.readable)

\* C4: after save_to_csv(A) and save_to_csv(B, append=True), A and B not
\* empty, the table has len(A) + len(B) rows, the rows of A first and
\* unchanged in every column they had, then the rows of B.
C4_AppendKeepsRows ==
    (Len(ops) = 2 /\ WroteFresh(ops[1]) /\ ops[2].listings # <<>>
       /\ ops[2].append)
      => LET A == ops[1].listings
             B == ops[2].listings
             t1 == ops[1].after.table
             t2 == ops[2].after.table
             tB == to_csv(DataFrame(B))
         IN  /\ Len(t2.rows) = Len(A) + Len(B)
             /\ \A i \in 1..Len(A) : \A c \in Range(t1.cols) :
                  /\ c \in Range(t2.cols)
                  /\ SameField(t2.rows[i][c], t1.rows[i][c])
             /\ \A j \in 1..Len(B) : \A c \in Range(tB.cols) :
                  /\ c \in Range(t2.cols)
                  /\ SameField(t2.rows[Len(A) + j][c], tB.rows[j][c])

\* The text fields of a listing record.
TextFields ==
    {"title", "rent_type", "district", "sub_district", "community",
     "orientation", "floor_level", "tags", "platform"}

\* C7: a dataset written by save_to_csv and read back by load_data has the
\* same number of rows in the same order, and every populated text field
\* of every row reads back with the same content.
C7_RoundTripKeepsText ==
    (pc = "loaded" /\ ops # <<>> /\ WroteFresh(ops[Len(ops)]))
      => LET D == ops[Len(ops)].listings
         IN  /\ loaded # None
             /\ Len(loaded.rows) = Len(D)
             /\ \A i \in 1..Len(D) : \A f \in TextFields \cap DOMAIN D[i] :
                  D[i][f].s # <<>>
                    => /\ f \in Range(loaded.cols)
                       /\ CellText(loaded.rows[i][f]) = D[i][f].s

\* C10: an append to a destination that exists but cannot be loaded does
\* not fail: the file afterwards is what a fresh write of the new records
\* gives, one row per record, and the file path is returned.
C10_UnreadableFallsBackToFreshWrite ==
    \A k \in 1..Len(ops) :
        (ops[k].append /\ ops[k].listings # <<>> /\ ops[k].before.exists
           /\ ~ops[k].before.readable)
          => /\ ops[k].exc = "none"
             /\ ops[k].value = FilePath
             /\ ops[k].after = TableFile(to_csv(DataFrame(ops[k].listings)))
             /\ Len(ops[k].after.table.rows) = Len(ops[k].listings)
             /\ k = Len(ops) => csvFile = ops[k].after

C10_Witness ==
    /\ pc = "save_second"
    /\ Len(ops) = 1
    /\ ops[1].append
    /\ ops[1].before = BadFile
    /\ ops[1].listings = <<parse_listing(FullNode), parse_listing(NaNode)>>
    /\ csvFile.readable
    /\ Len(csvFile.table.rows) = 2
    /\ saveRet.value = FilePath

\* ----------------------------------------------------------------- C11

\* C11: the skipped-pages log is append-only across crawls: in every state
\* it is the log the program found, followed by the skipped lists of the
\* finished scrape_page_range calls in call order; and the list a call
\* contributes is the pages that returned nothing, in the order they were
\* fetched.
C11_LogIsAppendOnly ==
    /\ skipLog = crawlLog.initial \o Flatten(crawlLog.skipped)
    /\ pc = "returned"
         => /\ crawlLog.skipped # <<>>
            /\ crawlLog.skipped[Len(crawlLog.skipped)] = EmptyPages
            /\ skipLog = logBefore \o EmptyPages

C11_Witness ==
    /\ pc = "returned"
    /\ crawlLog.initial = <<4>>
    /\ crawlLog.skipped = <<<<1, 2, 3>>, <<2>>>>
    /\ skipLog = <<4, 1, 2, 3, 2>>

\* ----------------------------------------------------------------- C12

\* Some command-line argument is not the text of an integer.
SomeArgNotInteger == \E i \in 1..Len(argv) : ~PyIntOk(Strip(argv[i]))

\* The page numbers a prompt answer or an argument of the model can name.
ArgNumbers == {PyInt(Strip(a)) : a \in {x \in ArgTexts : PyIntOk(Strip(x))}}

\* C12: once main has read its command line: one integer argument N gives
\* the range [1, N]; two integer arguments s, e with 1 <= s <= e give
\* [s, e]; without arguments no range is set before the prompt has been
\* answered and the range is then one the prompt accepted; and any
\* argument that is not an integer makes main print an error and return
\* before the spider exists and before any page is fetched.
C12_ArgumentForms ==
    pc # "main"
      => /\ (Len(argv) = 1 /\ ~SomeArgNotInteger)
              => start_page = 1 /\ end_page = PyInt(Strip(argv[1]))
         /\ (/\ Len(argv) = 2
             /\ ~SomeArgNotInteger
             /\ 1 <= PyInt(Strip(argv[1]))
             /\ PyInt(Strip(argv[1])) <= PyInt(Strip(argv[2])))
              => /\ start_page = PyInt(Strip(argv[1]))
                 /\ end_page = PyInt(Strip(argv[2]))
         /\ Len(argv) = 0
              => IF pc \in {"prompt", "exited"}
                 THEN start_page = 0 /\ end_page = 0 /\ ~spiderCreated
                 ELSE /\ start_page \in ArgNumbers
                      /\ end_page \in ArgNumbers
                      /\ 1 <= start_page
                      /\ start_page <= end_page
         /\ SomeArgNotInteger
              => /\ pc = "exited"
                 /\ printed = "error_not_integer"
                 /\ ~spiderCreated
                 /\ events = <<>>

\* ----------------------------------------------------------------- C13

\* Number of pages of the range [start_page, end_page].
RangeSize == IF end_page >= start_page THEN end_page - start_page + 1 ELSE 0

\* The fetch results so far contain three consecutive empty pages.
HasGap ==
    \E i \in 1..(Len(fetchLog) - 2) :
        EmptyAt(i) /\ EmptyAt(i + 1) /\ EmptyAt(i + 2)

\* The loop of scrape_page_range has ended, one way or the other.
Terminal == pc \in {"stopped_gap", "stopped_range"}

\* What C13 says of every state of a crawl.
C13_Safety ==
    /\ pc # "aborted"
    /\ Len(fetchLog) <= RangeSize
    /\ \A i \in 1..Len(fetchLog) : fetchLog[i].page = start_page + i - 1
    /\ pc = "stopped_range" => ~HasGap /\ Len(fetchLog) = RangeSize
    /\ pc = "stopped_gap" => HasGap
    /\ (pc = "crawl" /\ page_num > end_page) => ~HasGap

\* The loop is never starved: a page fetch returns within the request
\* timeout and a sleep within DELAY_MAX seconds.
SpecLive == Spec /\ WF_vars(CrawlPage(FALSE, FALSE)) /\ WF_vars(RangeEnd)

\* C13: a crawl makes at most end-start+1 fetches, of the pages of the
\* range in order; its loop always ends, in one of the two terminal states
\* and never by an exception; it ends by range, every page fetched once,
\* exactly when the results hold no run of three empty pages, and by gap
\* exactly when they do.
C13_TerminatesByGapOrRange ==
    /\ []C13_Safety
    /\ (pc = "crawl") ~> Terminal

C13_Witness ==
    /\ pc = "stopped_range"
    /\ start_page = 1
    /\ end_page = 10
    /\ Len(fetchLog) = 10
    /\ EmptyAt(2) /\ EmptyAt(3) /\ ~EmptyAt(4)
    /\ EmptyAt(9) /\ EmptyAt(10)

\* ----------------------------------------------------------------- C14

\* events[i] and events[j] are two fetches with no fetch between them.
ConsecutiveFetches(i, j) ==
    /\ i < j
    /\ events[i][1] = "fetch"
    /\ events[j][1] = "fetch"
    /\ \A k \in (i + 1)..(j - 1) : events[k][1] # "fetch"

SleepBetween(i, j) == \E k \in (i + 1)..(j - 1) : events[k][1] = "sleep"

\* The result of the fetch recorded in events[i].
ResultOfFetch(i) ==
    LET n == CHOOSE n \in 1..Len(fetchLog) : fetchLog[n].page = events[i][2]
    IN  fetchLog[n].listings

\* The crawl has just slept, for a time within the configured interval.
DelayWithinBounds ==
    (events # <<>> /\ events[Len(events)][1] = "sleep")
      => (DELAY_MIN <= lastDelay /\ lastDelay <= DELAY_MAX)

\* C14 as stated: between any two consecutive page fetches of a crawl
\* there is a sleep of a duration within [DELAY_MIN, DELAY_MAX], whatever
\* the earlier fetch returned.
C14_SleepBetweenAnyTwoFetches ==
    /\ \A i, j \in 1..Len(events) :
         ConsecutiveFetches(i, j) => SleepBetween(i, j)
    /\ DelayWithinBounds

\* C14, amended: between two consecutive page fetches of a crawl there is
\* a sleep, of a duration within [DELAY_MIN, DELAY_MAX], exactly when the
\* earlier fetch returned at least one record; after a page that returned
\* nothing the next page is fetched without any sleep.
C14_SleepOnlyAfterNonEmptyPage ==
    /\ \A i, j \in 1..Len(events) :
         ConsecutiveFetches(i, j)
           => (SleepBetween(i, j) <=> ResultOfFetch(i) # <<>>)
    /\ DelayWithinBounds

C14_Witness ==
    /\ start_page = 1
    /\ end_page = 3
    /\ Len(events) >= 6
    /\ events[1] = <<"fetch", 1>>
    /\ events[3] = <<"sleep", 1>>
    /\ events[4] = <<"fetch", 2>>
    /\ events[5] = <<"skip", 2>>
    /\ events[6] = <<"fetch", 3>>
    /\ lastDelay = DELAY_MAX

\* ----------------------------------------------------------------- C15

\* C15: whenever analyze_layout_statistics has returned layout statistics
\* that are not empty - also when a one-, two- or three-bedroom layout has
\* no rows - generate_layout_report ends without raising and has written
\* the report.
C15_ReportNeverRaises ==
    (report.called /\ DOMAIN layoutResult.layout_stats # {})
      => report.exc = "none" /\ report.written

\* ----------------------------------------------------------------- C16

\* Length of the run of empty pages that ends at the last fetched page.
TrailingEmpty ==
    Max({k \in 0..Len(fetchLog) :
            \A i \in (Len(fetchLog) - k + 1)..Len(fetchLog) : EmptyAt(i)})

\* C16: after each processed page the counter is the length of the run of
\* empty pages ending at that page (0 after a page with records, whose
\* records are then all in the aggregate); it stays within 0..3 and is 3
\* only once the loop has exited.
C16_CounterIsTrailingRun ==
    /\ consecutive_empty_pages = TrailingEmpty
    /\ consecutive_empty_pages \in 0..max_consecutive_empty
    /\ consecutive_empty_pages = max_consecutive_empty => pc # "crawl"
    /\ (fetchLog # <<>> /\ ~EmptyAt(Len(fetchLog)))
         => /\ consecutive_empty_pages = 0
            /\ all_listings = Flatten(FetchedListings)

C16_Witness ==
    /\ pc = "crawl"
    /\ Len(fetchLog) = 4
    /\ ~EmptyAt(1) /\ EmptyAt(2) /\ EmptyAt(3) /\ ~EmptyAt(4)
    /\ consecutive_empty_pages = 0
    /\ Len(all_listings) = 2

\* ----------------------------------------------------------------- C17

\* C17: every page that returned nothing is in the skipped list, in fetch
\* order; after a first or second consecutive empty page that is not the
\* last page of the range the loop is still running and the next page is
\* the one to fetch; and the records of every non-empty page, also of the
\* pages after a run of empty ones, are in the aggregate.
C17_EmptyPageDoesNotAbort ==
    /\ skipped_pages = EmptyPages
    /\ (/\ fetchLog # <<>>
        /\ TrailingEmpty \in 1..(max_consecutive_empty - 1)
        /\ fetchLog[Len(fetchLog)].page < end_page)
         => /\ pc = "crawl"
            /\ page_num = fetchLog[Len(fetchLog)].page + 1
    /\ \A i \in 1..(Len(fetchLog) - 1) :
         (EmptyAt(i) /\ ~EmptyAt(i + 1))
           => \E k \in 1..Len(all_listings) :
                 /\ k + Len(fetchLog[i + 1].listings) - 1 <= Len(all_listings)
                 /\ \A n \in 1..Len(fetchLog[i + 1].listings) :
                      all_listings[k + n - 1] = fetchLog[i + 1].listings[n]

C17_Witness ==
    /\ pc = "done"
    /\ start_page = 1
    /\ end_page = 10
    /\ Len(fetchLog) = 10
    /\ EmptyAt(2) /\ ~EmptyAt(3)
    /\ EmptyAt(5) /\ EmptyAt(6) /\ ~EmptyAt(7)
    /\ skipped_pages = <<2, 5, 6>>
    /\ Len(all_listings) = 7
    /\ all_listings[4] = parse_listing(GoodNode(7))

\* ----------------------------------------------------------------- C18

\* What the i-th fetched page adds to the event log when a page with
\* records is followed by one sleep and an empty page by none.
RECURSIVE ExpectedEvents(_)
ExpectedEvents(n) ==
    IF n = 0 THEN <<>>
    ELSE ExpectedEvents(n - 1)
           \o <<<<"fetch", fetchLog[n].page>>>>
           \o (IF EmptyAt(n) THEN <<<<"skip", fetchLog[n].page>>>>
               ELSE <<<<"extend", fetchLog[n].page>>,
                      <<"sleep", fetchLog[n].page>>>>)

\* Number of sleep events of page p.
SleepsOf(p) ==
    Cardinality({k \in 1..Len(events) : events[k] = <<"sleep", p>>})

\* C18: for each page that returned records there is exactly one sleep,
\* after the page's records were appended and before any later fetch; for
\* a page that returned nothing there is none.
C18_OneSleepPerNonEmptyPage ==
    /\ \A i \in 1..Len(fetchLog) :
         SleepsOf(fetchLog[i].page) = IF EmptyAt(i) THEN 0 ELSE 1
    /\ events = ExpectedEvents(Len(fetchLog))

C18_Witness ==
    /\ pc = "stopped_range"
    /\ start_page = 1
    /\ end_page = 2
    /\ events = <<<<"fetch", 1>>, <<"extend", 1>>, <<"sleep", 1>>,
                  <<"fetch", 2>>, <<"skip", 2>>>>

\* ----------------------------------------------------------------- C19

\* Number of HTTP requests made for page p in this crawl.
RequestsOf(p) ==
    Cardinality({k \in 1..Len(events) : events[k] = <<"fetch", p>>})

\* C19: within one crawl every page of the range is requested at most
\* once, every fetched page exactly once; a page whose request failed is
\* not asked again: it counts as empty and is skipped.
C19_NoRetry ==
    /\ \A p \in start_page..end_page : RequestsOf(p) <= 1
    /\ \A i \in 1..Len(fetchLog) : RequestsOf(fetchLog[i].page) = 1
    /\ (lastResp.kind \notin {"ok", "none"} /\ pc # "call")
         => /\ fetchLog # <<>>
            /\ EmptyAt(Len(fetchLog))
            /\ skipped_pages # <<>>
            /\ skipped_pages[Len(skipped_pages)] = fetchLog[Len(fetchLog)].page
            /\ pc = "crawl" => page_num = fetchLog[Len(fetchLog)].page + 1

C19_Witness ==
    /\ pc = "crawl"
    /\ Len(fetchLog) = 2
    /\ lastResp = Failure("RequestException")
    /\ EmptyAt(1) /\ EmptyAt(2)
    /\ page_num = start_page + 2
    /\ RequestsOf(start_page) = 1
    /\ RequestsOf(start_page + 1) = 1

\* ----------------------------------------------------------------- C20

\* The fetches of the event log, in order.
FetchEvents == SelectSeq(events, LAMBDA e : e[1] = "fetch")

\* events[k] settles page p: its records were appended to the aggregate,
\* or it was recorded as skipped.
Settles(k, p) == events[k] \in {<<"extend", p>>, <<"skip", p>>}

\* C20: the pages are fetched in the order start, start+1, ... without a
\* gap, and between the fetch of a page and the next fetch the page was
\* settled: its parsed result was appended to the aggregate or its number
\* recorded as skipped - as the state shows at every moment.
C20_StrictlySequential ==
    /\ \A n \in 1..Len(FetchEvents) : FetchEvents[n][2] = start_page + n - 1
    /\ \A i, j \in 1..Len(events) :
         ConsecutiveFetches(i, j)
           => \E k \in (i + 1)..(j - 1) : Settles(k, events[i][2])
    /\ Len(FetchEvents) = Len(fetchLog)
    /\ all_listings = Flatten(FetchedListings)
    /\ skipped_pages = EmptyPages

C20_Witness ==
    /\ pc = "crawl"
    /\ start_page = 2
    /\ page_num = 5
    /\ Len(FetchEvents) = 3
    /\ FetchEvents[3] = <<"fetch", 4>>
    /\ ~EmptyAt(1) /\ EmptyAt(2) /\ ~EmptyAt(3)
    /\ skipped_pages = <<3>>
    /\ all_listings = <<parse_listing(GoodNode(2)), parse_listing(GoodNode(4))>>


\* ------------------------------------------------------------------ C21

\* The node is well formed and holds the price span with its <em>, whose
\* text int() rejects.
PriceNotInteger(n) ==
    /\ ~n.fault
    /\ n.price.present
    /\ n.price.em.present
    /\ ~PyIntOk(get_text(<<n.price.em.text>>))

\* The record without its price.
WithoutPrice(listing) == [k \in DOMAIN listing \ {"price"} |-> listing[k]]

\* C21: when the price span and its <em> are present and the text is not
\* an integer, parse_listing returns a record (neither None nor an
\* exception) whose price is the int 0 and whose other fields are exactly
\* those the steps before the price extracted from the node.
C21_NonIntegerPriceIsZero ==
    (pc = "parsed" /\ PriceNotInteger(node))
      => /\ parsed # None
         /\ "price" \in DOMAIN parsed
         /\ parsed.price = IntV(0)
         /\ WithoutPrice(parsed)
              = ParseBrand(node, ParseTags(node, ParseDes(node,
                  ParseTitle(node, EmptyDict))))

C21_Witness ==
    /\ pc = "parsed"
    /\ ~node.fault
    /\ node.price.present
    /\ node.price.em = Elem(<<"5", ".", "5">>)
    /\ node.title = Elem(<<"C">>)
    /\ node.des = DesUsual
    /\ parsed # None
    /\ parsed.price = IntV(0)
    /\ parsed.title = StrV(<<"C">>)
    /\ parsed.area = FloatV(865)
    /\ parsed.community = StrV(<<"C">>)

\* ------------------------------------------------------------------ C22

\* The stripped texts of the <a> elements of the description paragraph, in
\* document order.
LinkTexts(n) ==
    LET links == SelectSeq(n.des.parts, LAMBDA part : part.kind = "a")
    IN  [i \in 1..Len(links) |-> Strip(links[i].text)]

DistrictFields == {"district", "sub_district", "community"}

DesFields ==
    {"area", "orientation", "bedrooms", "living_rooms", "bathrooms",
     "floor_level", "total_floors"}

\* The description-derived fields other than the district hierarchy, as
\* the steps 3b-3e extract them from the paragraph.
OtherDesFields(n) ==
    LET des_text == get_text([i \in 1..Len(n.des.parts) |-> n.des.parts[i].text])
    IN  ParseFloor(n.des, ParseLayout(des_text,
          ParseOrientation(des_text, ParseArea(des_text, EmptyDict))))

\* C22: with at least three links in the description paragraph district,
\* sub_district and community are the texts of links 0, 1 and 2; with
\* fewer than three links none of the three is set; in both cases area,
\* orientation, layout and floor are extracted as without the links.
C22_DistrictFromFirstThreeLinks ==
    (pc = "parsed" /\ ~node.fault /\ node.des.present)
      => /\ parsed # None
         /\ Len(LinkTexts(node)) >= 3
              => /\ DistrictFields \subseteq DOMAIN parsed
                 /\ parsed.district = StrV(LinkTexts(node)[1])
                 /\ parsed.sub_district = StrV(LinkTexts(node)[2])
                 /\ parsed.community = StrV(LinkTexts(node)[3])
         /\ Len(LinkTexts(node)) < 3
              => DistrictFields \cap DOMAIN parsed = {}
         /\ [k \in DOMAIN parsed \cap DesFields |-> parsed[k]]
              = OtherDesFields(node)

C22_Witness ==
    /\ pc = "parsed"
    /\ ~node.fault
    /\ \/ /\ node.des = DesLinks(4)
          /\ parsed.district = StrV(<<"1">>)
          /\ parsed.sub_district = StrV(<<"2">>)
          /\ parsed.community = StrV(<<"3">>)
       \/ /\ node.des \in {DesLinks(1), DesTwoLinks}
          /\ DistrictFields \cap DOMAIN parsed = {}
          /\ parsed.area = FloatV(400)

\* ------------------------------------------------------------------ C23

\* t.split('/'): the slash-delimited tokens of t.
RECURSIVE SlashTokens(_)
SlashTokens(t) ==
    IF Slashes(t) = {} THEN <<t>>
    ELSE LET i == Min(Slashes(t))
         IN  <<SubSeq(t, 1, i - 1)>> \o SlashTokens(SubSeq(t, i + 1, Len(t)))

\* The whole text of the description paragraph.
DesText(n) == get_text([i \in 1..Len(n.des.parts) |-> n.des.parts[i].text])

\* A token that is an area: a number followed by the square-metre sign.
IsAreaToken(tok) ==
    LET s == Strip(tok)
    IN  /\ Len(s) >= 2
        /\ s[Len(s)] = "m2"
        /\ IsAreaNumber(SubSeq(s, 1, Len(s) - 1))

\* The positions of the area tokens that another token follows.
AreaTokenIndices(n) ==
    {i \in 1..(Len(SlashTokens(DesText(n))) - 1) :
        IsAreaToken(SlashTokens(DesText(n))[i])}

\* C23: whenever the slash-delimited description text holds an area token
\* followed by another token, orientation is that following token - when
\* the text starts with the area token and when district and community
\* text precedes it.
C23_OrientationFollowsArea ==
    (pc = "parsed" /\ ~node.fault /\ node.des.present
       /\ AreaTokenIndices(node) # {})
      => /\ parsed # None
         /\ "orientation" \in DOMAIN parsed
         /\ parsed.orientation
              = StrV(Strip(SlashTokens(DesText(node))[Min(AreaTokenIndices(node)) + 1]))


\* ------------------------------------------------------------------ C24

FailedTry(t) == t.outcome \in {"RequestException", "antibot"}

\* The records of the pages before page p.
CityPagesBefore(p) == Flatten([q \in 1..(p - 1) |-> CityListings(q, "ok")])

\* The current scrape_city_page call used up its attempts.
CityPageExhausted ==
    /\ pc = "city_returned"
    /\ Len(tries) = max_retries
    /\ \A i \in 1..Len(tries) : FailedTry(tries[i])

\* The current scrape_city_page call met a page without any record.
CityPageEmpty ==
    /\ pc = "city_returned"
    /\ tries # <<>>
    /\ ~FailedTry(tries[Len(tries)])
    /\ page_listings = <<>>

\* C24: one scrape_city_page call issues at most max_retries GET attempts,
\* numbered 0, 1, ..., whatever the mix of request errors and anti-bot
\* responses; a failed attempt that another attempt follows is followed by
\* a sleep of at least 5 seconds times its number, and of two failed
\* attempts of the same kind with a following attempt the later one waits
\* longer; when the attempts are used up the call returns the empty list,
\* and scrape_city then ends as on an empty page: it returns the records
\* of the pages before this one.
C24_BoundedRetry ==
    pc \in {"city_attempt", "city_loop", "city_returned"}
      => /\ Len(tries) <= max_retries
         /\ \A i \in 1..Len(tries) : tries[i].attempt = i - 1
         /\ \A i \in 1..Len(tries) :
              (FailedTry(tries[i]) /\ i < max_retries)
                => tries[i].wait >= 5 * i
         /\ \A i, j \in 1..Len(tries) :
              (i < j /\ j < max_retries /\ FailedTry(tries[i])
                 /\ tries[i].outcome = tries[j].outcome)
                => tries[i].wait < tries[j].wait
         /\ (CityPageExhausted \/ CityPageEmpty)
              => /\ page_listings = <<>>
                 /\ ret = Return(all_listings)
                 /\ all_listings = CityPagesBefore(page_num)

C24_Witness ==
    /\ CityPageExhausted
    /\ max_retries = 3
    /\ page_num = 2
    /\ tries = <<[attempt |-> 0, outcome |-> "RequestException", wait |-> 5],
                 [attempt |-> 1, outcome |-> "antibot", wait |-> 20],
                 [attempt |-> 2, outcome |-> "RequestException", wait |-> 0]>>
    /\ page_listings = <<>>
    /\ ret = Return(CityListings(1, "ok"))

\* ------------------------------------------------------------------ C28

\* scrape_city has ended, by a return or by an exception.
CityEnded == pc \in {"city_returned", "city_raised"}

\* The number of pages scrape_city_page was called for.
CityPagesFetched ==
    IF pc = "city_raised" THEN 0
    ELSE page_num - 1 + (IF tries # <<>> /\ page_listings = <<>> THEN 1 ELSE 0)

\* C28: scrape_city with an explicit max_pages = n fetches at most n pages
\* and returns the collected records; with max_pages omitted it fetches at
\* most max(min_records // 30 + 10, 50) pages and returns them.
C28_PageBound ==
    CityEnded
      => /\ ret.exc = "none"
         /\ ret.value = all_listings
         /\ max_pages # None => CityPagesFetched <= max_pages.v
         /\ max_pages = None
              => CityPagesFetched <= Max({min_records \div 30 + 10, 50})

\* ------------------------------------------------------------------ C25

\* Page p is in the skipped list.
InSkipped(p) == \E i \in 1..Len(skipped_pages) : skipped_pages[i] = p

\* The i-th fetched page has a record of its own in the aggregate.
Contributed(i) ==
    /\ fetchLog[i].listings # <<>>
    /\ \E k \in 1..Len(all_listings) :
         all_listings[k] \in Range(fetchLog[i].listings)

\* C25: at every point of the crawl each page fetched so far is either in
\* the skipped list or has a record in the aggregate, never both; the
\* skipped list is strictly increasing (so without duplicates) and holds
\* only page numbers of [start_page, end_page].
C25_SkippedOrContributed ==
    /\ \A i \in 1..Len(fetchLog) :
         InSkipped(fetchLog[i].page) # Contributed(i)
    /\ \A i, j \in 1..Len(skipped_pages) :
         i < j => skipped_pages[i] < skipped_pages[j]
    /\ \A i \in 1..Len(skipped_pages) :
         skipped_pages[i] \in start_page..end_page

C25_Witness ==
    /\ pc = "crawl"
    /\ start_page = 1
    /\ page_num = 6
    /\ skipped_pages = <<2, 3, 5>>
    /\ all_listings = <<parse_listing(GoodNode(1)), parse_listing(GoodNode(4))>>
    /\ Len(fetchLog) = 5

\* ------------------------------------------------------------------ C26

\* A page whose container holds listing nodes, every one of which is
\* dropped: its extraction raised, or its record has no field.
AllDropped(resp) ==
    /\ resp.kind = "ok"
    /\ resp.container
    /\ resp.items # <<>>
    /\ \A n \in 1..Len(resp.items) :
         parse_listing(resp.items[n]) \in {None, EmptyDict}

\* C26: after the fetch of a page whose listings are all dropped the page
\* result is empty, the page is the last entry of the skipped list,
\* nothing was added to the aggregate, the counter is the length of the
\* run of empty pages ending here, and the crawl has stopped when that
\* run reached three - as after a page without listings.
C26_AllDroppedPageIsEmptyPage ==
    (pc \in {"crawl", "stopped_gap"} /\ fetchLog # <<>> /\ AllDropped(lastResp))
      => /\ LastFetch.listings = <<>>
         /\ skipped_pages # <<>>
         /\ skipped_pages[Len(skipped_pages)] = LastFetch.page
         /\ all_listings = Flatten(FetchedListings)
         /\ consecutive_empty_pages = TrailingEmpty
         /\ consecutive_empty_pages >= 1
         /\ (pc = "stopped_gap") <=> (TrailingEmpty >= max_consecutive_empty)
         /\ LET e == LoopBody(LastFetch.page, <<>>, all_listings,
                              SubSeq(skipped_pages, 1, Len(skipped_pages) - 1),
                              consecutive_empty_pages - 1)
            IN  /\ e.skipped_pages = skipped_pages
                /\ e.consecutive_empty_pages = consecutive_empty_pages

C26_Witness ==
    /\ pc = "stopped_gap"
    /\ lastResp = Page(TRUE, <<FaultNode, FaultNode>>)
    /\ skipped_pages = <<1, 2, 3>>
    /\ consecutive_empty_pages = 3
    /\ all_listings = <<>>

\* ------------------------------------------------------------------ C27

\* What save_to_csv answers when nothing changes: the destination as it
\* was, no directory created, None returned.
NothingSaved(file) ==
    [file |-> file, exc |-> "none", value |-> "None", makedirs |-> FALSE]

\* C27: save_to_csv with an empty record sequence, with append or without,
\* returns None without creating the output directory and leaves the
\* destination as it is, whatever its state; every save_to_csv call main
\* makes has records to save; and when the crawl returned no record the
\* step of main that follows changes neither the dataset file nor the
\* history of save_to_csv calls.
C27_EmptySaveChangesNothing ==
    /\ [](\A append \in BOOLEAN :
            save_to_csv(<<>>, append, csvFile) = NothingSaved(csvFile))
    /\ [](\A i \in 1..Len(ops) : ops[i].listings # <<>>)
    /\ [][(pc = "returned" /\ ret.value.listings = <<>>)
            => /\ csvFile' = csvFile
               /\ ops' = ops
               /\ saveRet' = saveRet
               /\ pc' = "done"]_vars

C27_Witness ==
    /\ pc = "done"
    /\ printed = "no_data"
    /\ ret.value.listings = <<>>
    /\ skipped_pages = <<1, 2, 3>>
    /\ csvFile = TableFile(EarlierTable)
    /\ ops = <<>>
    /\ saveRet = NoSave

\* ------------------------------------------------------------------ C29

\* A scrape_page_range call is under way or has just returned.
InCall == pc \in {"crawl", "stopped_gap", "stopped_range", "returned"}

\* C29: every scrape_page_range call, the first one and a later one on the
\* same spider, starts with an empty aggregate, an empty skipped list and
\* counter 0; throughout the call the three are those of the pages this
\* call fetched; the gap stop needs three empty pages of this call; and
\* the call returns the records of its own pages only.
C29_StatePerCall ==
    InCall
      => /\ fetchLog = <<>>
              => /\ all_listings = <<>>
                 /\ skipped_pages = <<>>
                 /\ consecutive_empty_pages = 0
         /\ all_listings = Flatten(FetchedListings)
         /\ skipped_pages = EmptyPages
         /\ consecutive_empty_pages = TrailingEmpty
         /\ \A i \in 1..Len(fetchLog) : fetchLog[i].page = start_page + i - 1
         /\ pc = "stopped_gap"
              => /\ Len(fetchLog) >= max_consecutive_empty
                 /\ TrailingEmpty = max_consecutive_empty
         /\ pc = "returned"
              => ret = Return([listings |-> Flatten(FetchedListings)])

\* The first crawl ended with the empty pages 2 and 3; the second one met
\* an empty page 1 and goes on with counter 1.
C29_Witness ==
    /\ pc = "crawl"
    /\ crawlLog.skipped = <<<<2, 3>>>>
    /\ start_page = 1
    /\ end_page = 3
    /\ page_num = 2
    /\ fetchLog = <<[page |-> 1, listings |-> <<>>]>>
    /\ skipped_pages = <<1>>
    /\ consecutive_empty_pages = 1
    /\ all_listings = <<>>

\* ------------------------------------------------------------------ C30

\* The fields of S are all set in the record or all absent from it.
AllOrNone(listing, S) ==
    S \subseteq DOMAIN listing \/ S \cap DOMAIN listing = {}

\* The rent type the title stands for: whole rent when the title holds its
\* marker, else shared rent when it holds that one, else other.
RentTypeOf(title) ==
    IF \E i \in 1..(Len(title) - 1) : title[i] = "zheng" /\ title[i + 1] = "zu"
      THEN <<"zheng", "zu">>
    ELSE IF \E i \in 1..(Len(title) - 1) : title[i] = "he" /\ title[i + 1] = "zu"
      THEN <<"he", "zu">>
    ELSE <<"qi", "ta">>

\* C30: in every record parse_listing returns rent_type is set exactly
\* when title is, and is then whole, shared or other by the markers in the
\* title, whole taking precedence; district, sub_district and community
\* are all set or all absent; so are bedrooms, living_rooms and bathrooms;
\* so are floor_level and total_floors.
C30_FieldGroups ==
    (pc = "parsed" /\ parsed # None)
      => /\ AllOrNone(parsed, {"title", "rent_type"})
         /\ "title" \in DOMAIN parsed
              => /\ parsed.title.t = "str"
                 /\ parsed.rent_type = StrV(RentTypeOf(parsed.title.s))
         /\ AllOrNone(parsed, {"district", "sub_district", "community"})
         /\ AllOrNone(parsed, {"bedrooms", "living_rooms", "bathrooms"})
         /\ AllOrNone(parsed, {"floor_level", "total_floors"})

C30_Witness ==
    /\ pc = "parsed"
    /\ parsed # None
    /\ node.title = Elem(<<"he", "zu", "zheng", "zu">>)
    /\ node.des = DesUsual
    /\ parsed.rent_type = StrV(<<"zheng", "zu">>)
    /\ parsed.sub_district = StrV(<<"S">>)
    /\ parsed.bathrooms = IntV(1)
    /\ parsed.floor_level = StrV(<<"M">>)
    /\ parsed.total_floors = IntV(16)
====
